---- MODULE Spec2Model ----
(***************************************************************************)
(* Model of the ike-go processing engine (internal/manager/services),      *)
(* its importers (internal/manager/importers) and the store it writes to.  *)
(*                                                                         *)
(* Three specifications of the engine share the variables below:                         *)
(*   SpecReg     the five adapter registries under concurrent Register     *)
(*   SpecChunks  processChunks: the chunk worker pool and its transactions *)
(*   Spec        ProcessSource: import, transform, chunk, embed            *)
(* The others call single methods or run single parts directly:           *)
(*   SpecChunker   TokenChunker.ChunkDocument / ChunkDocumentWithOverlap   *)
(*   SpecPages     WPJSONImporter.getPostIDs                               *)
(*   SpecDoc       ProcessingEngine.ProcessDocument on a stored download   *)
(*   SpecImport    Importer.Import of the GitHub and WP-JSON importers     *)
(*   SpecDownloads inserts into downloads under the last-3 trigger         *)
(*   SpecCmd       the import and transform commands (cmd)                 *)
(***************************************************************************)
EXTENDS Integers, Sequences, FiniteSets, TLC

VARIABLES
    \* ---- ProcessingEngine registries (engine struct) ----
    importers, transformers, chunkers, embedders, updaters,
    mu,            \* holder of e.mu (NoHolder when free)
    regArg,        \* per caller: the adapter kind and the tag its adapter declares
    regPc,         \* per caller: position inside Register*
    regRet,        \* per caller: value returned by Register*
    \* ---- the store (pkg/migrations/init_schema.sql) ----
    sources, downloads, documents, documentMeta, chunksTbl, embeddingsTbl,
    fkEnforced,    \* whether the store enforces FOREIGN KEY clauses
    nextId,        \* uuid.New(): next fresh identifier
    \* ---- ProcessSource / ProcessDocument ----
    sourceURL,     \* argument of ProcessSource
    options,       \* *interfaces.ProcessingOptions
    content,       \* token array of the selected download's normalized content
    enginePc,      \* position of the engine goroutine
    sourceType,    \* result of determineSourceType / determineSourceTypeFromSource
    importResult,  \* first return value of importer.Import (NilResult or a record)
    importErr,     \* second return value of importer.Import
    downloadID,    \* argument ProcessDocument was called with (NoId before)
    psRet,         \* value ProcessSource returned ("pending" before; "panic")
    trace,         \* history: the stages ProcessDocument has entered, in order
    \* ---- Importer.Import ----
    items,         \* enumerated items (filtered files / post ids)
    fileIdx,       \* GitHub: index of the next file of the range loop
    lastResult, errorsList,
    postPc,        \* WP-JSON: per item goroutine position
    semaphore,     \* WP-JSON: number of held semaphore slots
    results,       \* WP-JSON: results channel
    collected,     \* WP-JSON: results read so far
    recvLog,       \* history: per-item results in the order Import saw them
    fetchLog,      \* history: per item, the answers its fetch requests got
    \* ---- processChunks / chunkWorker ----
    chunks,        \* []*models.Chunk handed to processChunks
    documentID, concurrency, embDim,
    chunkChan, chunkChanClosed, resultChan,
    pcPC,          \* position of processChunks
    spawned, sent, nRead, chunkErrors,
    pcRet,         \* value processChunks returned
    wPc, wCur, wEmb, wErr, wTx,
    hist,          \* history: per chunk, how often it was received, embedded,
                   \* emitted, and the error its result carried
    cancelled,     \* ctx.Done() has fired
    \* ---- direct calls of adapter methods ----
    ckArgs,        \* TokenChunker: the method called and its arguments
    ckRet,         \* TokenChunker: what the method returned
    tokenizerEnv,  \* the environment variable CHUNKER_TOKENIZER ("" when unset)
    maxPages,      \* WPJSONImporter.maxPages
    page,          \* getPostIDs: the loop variable
    allPostIDs,    \* getPostIDs: the ids appended so far
    pageLog,       \* history: the listing pages requested, with their answers
    gpRet,         \* what getPostIDs returned
    dlLog,         \* history: every Download row a direct insert has added
    \* ---- the import and transform commands (cmd) ----
    cliArgs,       \* the command invoked and the flags given on its command line
    cliPc,         \* position: init(), flag parsing, the Run function
    pkgFlags,      \* the package-level variables maxTokens, concurrency, timeout
    initLocals,    \* the variables of the same names declared inside init()
    cliRun         \* what the Run function handed to the engine and the importer

regVars == <<importers, transformers, chunkers, embedders, updaters, mu, regArg, regPc, regRet>>
storeVars == <<sources, downloads, documents, documentMeta, chunksTbl, embeddingsTbl, fkEnforced, nextId>>
engineVars == <<sourceURL, options, content, enginePc, sourceType, importResult, importErr, downloadID, psRet, trace>>
importVars == <<items, fileIdx, lastResult, errorsList, postPc, semaphore, results, collected, recvLog, fetchLog>>
chunkVars == <<chunks, documentID, concurrency, embDim, chunkChan, chunkChanClosed, resultChan, pcPC, spawned, sent, nRead, chunkErrors, pcRet, wPc, wCur, wEmb, wErr, wTx, hist, cancelled>>
chunkerVars == <<ckArgs, ckRet, tokenizerEnv>>
pagesVars == <<maxPages, page, allPostIDs, pageLog, gpRet>>
cliVars == <<cliArgs, cliPc, pkgFlags, initLocals, cliRun>>
unitVars == <<chunkerVars, pagesVars, dlLog, cliVars>>
vars == <<regVars, storeVars, engineVars, importVars, chunkVars, unitVars>>

----------------------------------------------------------------------------
(* Bounds *)

NumCallers == 3
MaxChunks == 2
MaxConcurrency == 2
MaxItems == 3
MaxContent == 3
MaxText == 6
MaxWindow == 3
MaxPages == 3
MaxPerPage == 3
MaxInserts == 5
MaxTime == 3
MaxFlag == 2

----------------------------------------------------------------------------
(* Values *)

Nil == "nil"
NoAdapter == 0
NoHolder == 0
NoId == 0

Callers == 1..NumCallers
Kinds == {"importer", "transformer", "chunker", "embedder", "updater"}
RegTags == {"github", "wp-json"}
Tags == RegTags \cup {"token", "model"}

Workers == 1..MaxConcurrency

(* A []float32 is modelled by its length; VecNil is the nil slice. *)
VecNil == -1

(* *models.Embedding(nil), and the zero sql.Tx of a worker outside a transaction *)
NoEmbedding == [nil |-> TRUE, ID |-> NoId, ObjectID |-> NoId, ObjectType |-> "",
                Embedding768 |-> VecNil, Embedding1536 |-> VecNil, Embedding3072 |-> VecNil]
NoTx == [open |-> FALSE, chunkRows |-> {}, embeddingRows |-> {}]

(* The nil *interfaces.ImportResult *)
NilResult == [nil |-> TRUE, SourceID |-> NoId, DownloadID |-> NoId, Error |-> Nil]

(* A source URL as url.Parse sees it: the host, the number of segments of
   the trimmed path, and whether the path contains "/wp-json/". *)
NoURL == [host |-> "", parts |-> 0, wpjson |-> FALSE]
NoOptions == [ChunkStrategy |-> "", EmbeddingModel |-> "", MaxTokens |-> 0, Concurrency |-> 0]

(* *string(nil) body, and a body holding text (a token array) *)
NilBody == [valid |-> FALSE, text |-> <<>>]
BodyOf(toks) == [valid |-> TRUE, text |-> toks]

embeddingDim768 == 768
embeddingDim1536 == 1536
embeddingDim3072 == 3072

----------------------------------------------------------------------------
(* Registration errors (engine, var block) *)

ErrImporterAlreadyRegistered == "importer already registered for source type"
ErrTransformerAlreadyRegistered == "transformer already registered for source type"
ErrChunkerAlreadyRegistered == "chunker already registered for strategy"
ErrEmbedderAlreadyRegistered == "embedder already registered for model"
ErrUpdaterAlreadyRegistered == "updater already registered for source type"

(* Processing errors *)
ErrNoImporterRegistered == "no importer registered for source type"
ErrNoTransformerRegistered == "no transformer registered for source type"
ErrNoChunkerRegistered == "no chunker registered for strategy"
ErrNoEmbedderRegistered == "no embedder registered for model"
ErrNoImporterCanHandle == "no importer can handle URL"
ErrCannotDetermineSourceType == "cannot determine source type from source"
ErrChunkProcessingFailed == "chunk processing failed"
ErrUnsupportedEmbeddingDim == "unsupported embedding dimension"
ErrNoEmbeddingVector == "no embedding vector found"

----------------------------------------------------------------------------
(* NewProcessingEngine: five empty maps *)

EmptyRegistry == [t \in Tags |-> NoAdapter]

(* The values every specification gives to the parts it does not use. *)
RegIdle ==
    /\ mu = NoHolder
    /\ regArg = [c \in Callers |-> [kind |-> "importer", tag |-> "github"]]
    /\ regPc = [c \in Callers |-> "done"]
    /\ regRet = [c \in Callers |-> "none"]

StoreEmpty ==
    /\ sources = {}
    /\ downloads = {}
    /\ documents = {}
    /\ documentMeta = {}
    /\ chunksTbl = {}
    /\ embeddingsTbl = {}

EngineIdle ==
    /\ sourceURL = NoURL
    /\ options = NoOptions
    /\ content = <<>>
    /\ enginePc = "idle"
    /\ sourceType = ""
    /\ importResult = NilResult
    /\ importErr = Nil
    /\ downloadID = NoId
    /\ psRet = "pending"
    /\ trace = <<>>

ImportIdle ==
    /\ items = 0
    /\ fileIdx = 1
    /\ lastResult = NilResult
    /\ errorsList = <<>>
    /\ postPc = [i \in 1..0 |-> "go"]
    /\ semaphore = 0
    /\ results = <<>>
    /\ collected = 0
    /\ recvLog = <<>>
    /\ fetchLog = <<>>

ChunkLocalsIdle ==
    /\ chunks = <<>>
    /\ documentID = NoId
    /\ concurrency = 0
    /\ chunkChan = <<>>
    /\ chunkChanClosed = FALSE
    /\ resultChan = <<>>
    /\ pcPC = "idle"
    /\ spawned = 0
    /\ sent = 0
    /\ nRead = 0
    /\ chunkErrors = <<>>
    /\ pcRet = "pending"
    /\ wPc = [w \in Workers |-> "unborn"]
    /\ wCur = [w \in Workers |-> 0]
    /\ wEmb = [w \in Workers |-> NoEmbedding]
    /\ wErr = [w \in Workers |-> Nil]
    /\ wTx = [w \in Workers |-> NoTx]
    /\ hist = <<>>
    /\ cancelled = FALSE

ChunksIdle == ChunkLocalsIdle /\ embDim = embeddingDim1536

NoCall == [fn |-> "", tokens |-> 0, maxTokens |-> 0, overlapTokens |-> 0]
Pending == [done |-> FALSE, chunks |-> <<>>, err |-> Nil]
NoIds == [done |-> FALSE, nilIds |-> TRUE, ids |-> <<>>, err |-> Nil]

ChunkerIdle == ckArgs = NoCall /\ ckRet = Pending /\ tokenizerEnv = ""

PagesIdle ==
    /\ maxPages = 0
    /\ page = 1
    /\ allPostIDs = <<>>
    /\ pageLog = <<>>
    /\ gpRet = NoIds

DownloadsIdle == dlLog = {}

NotGiven == [given |-> FALSE, value |-> 0]
Given(v) == [given |-> TRUE, value |-> v]
NoFlags == [maxTokens |-> 0, concurrency |-> 0, timeout |-> 0]
NoRun == [done |-> FALSE, MaxTokens |-> 0, Concurrency |-> 0, ctxTimeout |-> 0,
          wpConfigured |-> FALSE, wpConcurrency |-> 0]

CliIdle ==
    /\ cliArgs = [cmd |-> "", tokens |-> NotGiven, concurrency |-> NotGiven, timeout |-> NotGiven]
    /\ cliPc = "idle"
    /\ pkgFlags = NoFlags
    /\ initLocals = NoFlags
    /\ cliRun = NoRun

UnitIdle == ChunkerIdle /\ PagesIdle /\ DownloadsIdle /\ CliIdle

----------------------------------------------------------------------------
(* Register{Importer,Transformer,Chunker,Embedder,Updater}                 *)

(* A registration that overwrites whatever the tag held (no existence check). *)
RegisterOverwrite(reg, tag, adapter, errExists) ==
    [reg |-> [reg EXCEPT ![tag] = adapter], err |-> Nil]

(* The body the five Register methods share: under e.mu, fail if the tag is
   present, else store the adapter. *)
RegisterIn(reg, tag, adapter, errExists) ==
    IF reg[tag] # NoAdapter
    THEN [reg |-> reg, err |-> errExists]
    ELSE [reg |-> [reg EXCEPT ![tag] = adapter], err |-> Nil]

(* e.mu.Lock() at the head of a Register method: blocks while the lock is held. *)
MuLock(c) ==
    /\ regPc[c] = "start"
    /\ mu = NoHolder
    /\ mu' = c
    /\ regPc' = [regPc EXCEPT ![c] = "locked"]
    /\ UNCHANGED <<importers, transformers, chunkers, embedders, updaters, regArg, regRet>>
    /\ UNCHANGED <<storeVars, engineVars, importVars, chunkVars, unitVars>>

(* The part after Lock of every Register method: returns and (defer) unlocks. *)
RegisterDone(c, err) ==
    /\ regPc[c] = "locked"
    /\ mu = c
    /\ regRet' = [regRet EXCEPT ![c] = err]
    /\ regPc' = [regPc EXCEPT ![c] = "done"]
    /\ mu' = NoHolder
    /\ UNCHANGED regArg
    /\ UNCHANGED <<storeVars, engineVars, importVars, chunkVars, unitVars>>

RegisterImporter(c) ==
    /\ regArg[c].kind = "importer"
    /\ LET r == RegisterIn(importers, regArg[c].tag, c, ErrImporterAlreadyRegistered)
       IN /\ importers' = r.reg
          /\ RegisterDone(c, r.err)
    /\ UNCHANGED <<transformers, chunkers, embedders, updaters>>

RegisterTransformer(c) ==
    /\ regArg[c].kind = "transformer"
    /\ LET r == RegisterIn(transformers, regArg[c].tag, c, ErrTransformerAlreadyRegistered)
       IN /\ transformers' = r.reg
          /\ RegisterDone(c, r.err)
    /\ UNCHANGED <<importers, chunkers, embedders, updaters>>

RegisterChunker(c) ==
    /\ regArg[c].kind = "chunker"
    /\ LET r == RegisterIn(chunkers, regArg[c].tag, c, ErrChunkerAlreadyRegistered)
       IN /\ chunkers' = r.reg
          /\ RegisterDone(c, r.err)
    /\ UNCHANGED <<importers, transformers, embedders, updaters>>

RegisterEmbedder(c) ==
    /\ regArg[c].kind = "embedder"
    /\ LET r == RegisterIn(embedders, regArg[c].tag, c, ErrEmbedderAlreadyRegistered)
       IN /\ embedders' = r.reg
          /\ RegisterDone(c, r.err)
    /\ UNCHANGED <<importers, transformers, chunkers, updaters>>

RegisterUpdater(c) ==
    /\ regArg[c].kind = "updater"
    /\ LET r == RegisterIn(updaters, regArg[c].tag, c, ErrUpdaterAlreadyRegistered)
       IN /\ updaters' = r.reg
          /\ RegisterDone(c, r.err)
    /\ UNCHANGED <<importers, transformers, chunkers, embedders>>

InitReg ==
    /\ importers = EmptyRegistry
    /\ transformers = EmptyRegistry
    /\ chunkers = EmptyRegistry
    /\ embedders = EmptyRegistry
    /\ updaters = EmptyRegistry
    /\ mu = NoHolder
    /\ regArg \in [Callers -> [kind : Kinds, tag : RegTags]]
    /\ regPc = [c \in Callers |-> "start"]
    /\ regRet = [c \in Callers |-> "none"]
    /\ StoreEmpty /\ fkEnforced = FALSE /\ nextId = 1
    /\ EngineIdle /\ ImportIdle /\ ChunksIdle /\ UnitIdle

NextReg ==
    \E c \in Callers :
        \/ MuLock(c)
        \/ RegisterImporter(c)
        \/ RegisterTransformer(c)
        \/ RegisterChunker(c)
        \/ RegisterEmbedder(c)
        \/ RegisterUpdater(c)

SpecReg == InitReg /\ [][NextReg]_vars

----------------------------------------------------------------------------
(* C1 *)

RegistryOf(kind) ==
    CASE kind = "importer" -> importers
      [] kind = "transformer" -> transformers
      [] kind = "chunker" -> chunkers
      [] kind = "embedder" -> embedders
      [] kind = "updater" -> updaters

AlreadyRegisteredOf(kind) ==
    CASE kind = "importer" -> ErrImporterAlreadyRegistered
      [] kind = "transformer" -> ErrTransformerAlreadyRegistered
      [] kind = "chunker" -> ErrChunkerAlreadyRegistered
      [] kind = "embedder" -> ErrEmbedderAlreadyRegistered
      [] kind = "updater" -> ErrUpdaterAlreadyRegistered

CallersOf(kind, tag) == {c \in Callers : regArg[c] = [kind |-> kind, tag |-> tag]}
WinnersOf(kind, tag) == {c \in CallersOf(kind, tag) : regRet[c] = Nil}

(* C1: for every adapter kind and tag, among the concurrent Register calls
   whose adapters declare that tag at most one has returned success at any
   time; every call that has returned got success or the kind's
   AlreadyRegistered error; once all have returned exactly one succeeded;
   and the registry holds for the tag exactly the winner's adapter (nothing
   while no call has won), so no later call replaces it. *)
C1_OneWinnerPerTag ==
    \A kind \in Kinds, tag \in Tags :
        LET S == CallersOf(kind, tag)
            W == WinnersOf(kind, tag)
        IN /\ Cardinality(W) <= 1
           /\ \A c \in S : regPc[c] = "done" =>
                  regRet[c] \in {Nil, AlreadyRegisteredOf(kind)}
           /\ (S # {} /\ \A c \in S : regPc[c] = "done") => Cardinality(W) = 1
           /\ \A c \in W : RegistryOf(kind)[tag] = c
           /\ W = {} => RegistryOf(kind)[tag] = NoAdapter

(* All callers registered the same kind and tag concurrently and all have
   returned: one winner, the others lost. *)
C1_Witness ==
    /\ \A c \in Callers : regPc[c] = "done" /\ regArg[c] = regArg[1]
    /\ Cardinality({c \in Callers : regRet[c] = Nil}) = 1
    /\ Cardinality({c \in Callers : regRet[c] = AlreadyRegisteredOf(regArg[1].kind)}) = NumCallers - 1
    /\ \E c \in Callers : c # 1 /\ regRet[c] = Nil

----------------------------------------------------------------------------
(* TokenChunker.ChunkDocument (chunkers/token.go).  Content is modelled by  *)
(* its token array (Encode is total); the empty string is the empty array.  *)
(* base is the first identifier uuid.New() hands out.                       *)

ErrContentEmpty == "content cannot be empty"
ErrInvalidMaxTokens == "maxTokens must be positive"

ErrInvalidOverlap == "overlapTokens must be between 0 and maxTokens"

(* getTokenizerFromEnv: the configured tokenizer name *)
GetTokenizerFromEnv == IF tokenizerEnv = "" THEN "cl100k_base" ELSE tokenizerEnv

(* strings.ToLower on the names of TokenizerEnvs *)
ToLower(name) == IF name = "P50K_BASE" THEN "p50k_base" ELSE name

(* getTokenizerEncoding: the codec for a name, cl100k_base for unknown names *)
GetTokenizerEncoding(name) ==
    IF ToLower(name) \in {"cl100k_base", "p50k_base", "r50k_base"} THEN ToLower(name)
    ELSE "cl100k_base"

(* NewTokenChunker: t.encoding, the codec Encode and Decode run with *)
Encoding == GetTokenizerEncoding(GetTokenizerFromEnv)

(* Values of CHUNKER_TOKENIZER: unset, the three known names, a known name
   in capitals, an unknown name. *)
TokenizerEnvs == {"", "cl100k_base", "p50k_base", "r50k_base", "P50K_BASE", "gpt2"}

(* A window that starts one token early: tokens[i-1:end]. *)
ChunkTokensFromPrevious(tokens, i, end) ==
    SubSeq(tokens, IF i = 0 THEN 1 ELSE i, end)

(* "chunkTokens := tokens[i:end]" *)
ChunkTokens(tokens, i, end) == SubSeq(tokens, i + 1, end)

(* A loop that never sets the previous chunk's right pointer. *)
LinkRightNever(acc, chunkID) == acc

(* "if len(chunks) > 0 { chunks[len(chunks)-1].RightChunkID = &chunkID }" *)
LinkRight(acc, chunkID) ==
    IF acc = <<>> THEN acc ELSE [acc EXCEPT ![Len(acc)].RightChunkID = chunkID]

(* The chunk both loops create for the window tokens[i:end], and the list
   after appending it; previousChunkID is the id of the last chunk appended. *)
AppendChunk(tokens, i, end, acc, base) ==
    LET chunkTokens == ChunkTokens(tokens, i, end)
        chunkID == base + Len(acc)
        chunk == [ID |-> chunkID,
                  DocumentID |-> NoId,
                  LeftChunkID |-> IF acc = <<>> THEN NoId ELSE acc[Len(acc)].ID,
                  RightChunkID |-> NoId,
                  Body |-> BodyOf(chunkTokens),
                  Tokenizer |-> "cl100k_base",
                  TokenCount |-> Len(chunkTokens)]
    IN Append(LinkRight(acc, chunkID), chunk)

(* A window end that stops one token short of a full window. *)
WindowEndShort(tokens, maxTokens, i) ==
    IF i + maxTokens > Len(tokens) THEN Len(tokens) ELSE i + maxTokens - 1

(* "end := i + maxTokens; if end > totalTokens { end = totalTokens }" *)
WindowEnd(tokens, maxTokens, i) ==
    IF i + maxTokens > Len(tokens) THEN Len(tokens) ELSE i + maxTokens

RECURSIVE ChunkLoop(_, _, _, _, _)
(* The loop "for i := 0; i < totalTokens; i += maxTokens": acc holds the
   chunks appended so far, the previous chunk's right pointer is set when
   the next chunk is created. *)
ChunkLoop(tokens, maxTokens, i, acc, base) ==
    IF i >= Len(tokens) THEN acc
    ELSE ChunkLoop(tokens, maxTokens, i + maxTokens,
                   AppendChunk(tokens, i, WindowEnd(tokens, maxTokens, i), acc, base), base)

RECURSIVE OverlapLoop(_, _, _, _, _, _)
(* The loop of ChunkDocumentWithOverlap: "for i := 0; i < totalTokens;
   i += stepSize", left by "if end >= totalTokens { break }". *)
OverlapLoop(tokens, maxTokens, stepSize, i, acc, base) ==
    IF i >= Len(tokens) THEN acc
    ELSE LET end == WindowEnd(tokens, maxTokens, i)
             next == AppendChunk(tokens, i, end, acc, base)
         IN IF end >= Len(tokens) THEN next
            ELSE OverlapLoop(tokens, maxTokens, stepSize, i + stepSize, next, base)

(* A chunker that answers empty content with an empty chunk list. *)
ChunkDocumentEmptyOk(tokens, maxTokens, base) ==
    IF tokens = <<>> THEN [chunks |-> <<>>, err |-> Nil]
    ELSE IF maxTokens <= 0 THEN [chunks |-> <<>>, err |-> ErrInvalidMaxTokens]
    ELSE IF Len(tokens) <= maxTokens
    THEN [chunks |-> << [ID |-> base, DocumentID |-> NoId, LeftChunkID |-> NoId,
                         RightChunkID |-> NoId, Body |-> BodyOf(tokens),
                         Tokenizer |-> GetTokenizerFromEnv,
                         TokenCount |-> Len(tokens)] >>,
          err |-> Nil]
    ELSE [chunks |-> ChunkLoop(tokens, maxTokens, 0, <<>>, base), err |-> Nil]

ChunkDocument(tokens, maxTokens, base) ==
    IF tokens = <<>> THEN [chunks |-> <<>>, err |-> ErrContentEmpty]
    ELSE IF maxTokens <= 0 THEN [chunks |-> <<>>, err |-> ErrInvalidMaxTokens]
    ELSE IF Len(tokens) <= maxTokens
    THEN [chunks |-> << [ID |-> base, DocumentID |-> NoId, LeftChunkID |-> NoId,
                         RightChunkID |-> NoId, Body |-> BodyOf(tokens),
                         Tokenizer |-> GetTokenizerFromEnv,
                         TokenCount |-> Len(tokens)] >>,
          err |-> Nil]
    ELSE [chunks |-> ChunkLoop(tokens, maxTokens, 0, <<>>, base), err |-> Nil]

(* An overlapping cut whose stride is maxTokens: the overlap is not applied. *)
ChunkDocumentWithOverlapFullStride(tokens, maxTokens, overlapTokens, base) ==
    IF tokens = <<>> THEN [chunks |-> <<>>, err |-> ErrContentEmpty]
    ELSE IF maxTokens <= 0 THEN [chunks |-> <<>>, err |-> ErrInvalidMaxTokens]
    ELSE IF overlapTokens < 0 \/ overlapTokens >= maxTokens
    THEN [chunks |-> <<>>, err |-> ErrInvalidOverlap]
    ELSE [chunks |-> OverlapLoop(tokens, maxTokens, maxTokens, 0, <<>>, base), err |-> Nil]

ChunkDocumentWithOverlap(tokens, maxTokens, overlapTokens, base) ==
    IF tokens = <<>> THEN [chunks |-> <<>>, err |-> ErrContentEmpty]
    ELSE IF maxTokens <= 0 THEN [chunks |-> <<>>, err |-> ErrInvalidMaxTokens]
    ELSE IF overlapTokens < 0 \/ overlapTokens >= maxTokens
    THEN [chunks |-> <<>>, err |-> ErrInvalidOverlap]
    ELSE IF Len(tokens) <= maxTokens
    THEN [chunks |-> << [ID |-> base, DocumentID |-> NoId, LeftChunkID |-> NoId,
                         RightChunkID |-> NoId, Body |-> BodyOf(tokens),
                         Tokenizer |-> GetTokenizerFromEnv,
                         TokenCount |-> Len(tokens)] >>,
          err |-> Nil]
    ELSE [chunks |-> OverlapLoop(tokens, maxTokens, maxTokens - overlapTokens, 0, <<>>, base),
          err |-> Nil]

(* A content of n tokens; token values are their positions. *)
TokensOf(n) == [j \in 1..n |-> j]

(* A direct call of one of the two chunking methods. *)
CallChunkDocument ==
    /\ ckArgs.fn = "ChunkDocument"
    /\ ~ckRet.done
    /\ LET r == ChunkDocument(TokensOf(ckArgs.tokens), ckArgs.maxTokens, 1)
       IN ckRet' = [done |-> TRUE, chunks |-> r.chunks, err |-> r.err]
    /\ UNCHANGED <<ckArgs, tokenizerEnv, pagesVars, dlLog, cliVars>>
    /\ UNCHANGED <<regVars, storeVars, engineVars, importVars, chunkVars>>

CallChunkDocumentWithOverlap ==
    /\ ckArgs.fn = "ChunkDocumentWithOverlap"
    /\ ~ckRet.done
    /\ LET r == ChunkDocumentWithOverlap(TokensOf(ckArgs.tokens), ckArgs.maxTokens,
                                         ckArgs.overlapTokens, 1)
       IN ckRet' = [done |-> TRUE, chunks |-> r.chunks, err |-> r.err]
    /\ UNCHANGED <<ckArgs, tokenizerEnv, pagesVars, dlLog, cliVars>>
    /\ UNCHANGED <<regVars, storeVars, engineVars, importVars, chunkVars>>

(* The engine, its store and its callers at rest. *)
EngineAtRest ==
    /\ importers = EmptyRegistry
    /\ transformers = EmptyRegistry
    /\ chunkers = EmptyRegistry
    /\ embedders = EmptyRegistry
    /\ updaters = EmptyRegistry
    /\ RegIdle
    /\ StoreEmpty /\ fkEnforced = FALSE /\ nextId = 1
    /\ EngineIdle /\ ImportIdle /\ ChunksIdle

(* Contents of 0..MaxText tokens, maxTokens in 0..MaxWindow, and for the
   overlapping method overlapTokens in -1..MaxWindow. *)
InitChunker ==
    /\ EngineAtRest
    /\ PagesIdle /\ DownloadsIdle /\ CliIdle
    /\ tokenizerEnv \in TokenizerEnvs
    /\ ckArgs \in
          [fn : {"ChunkDocument"}, tokens : 0..MaxText, maxTokens : 0..MaxWindow,
           overlapTokens : {0}]
          \cup
          [fn : {"ChunkDocumentWithOverlap"}, tokens : 0..MaxText, maxTokens : 0..MaxWindow,
           overlapTokens : -1..MaxWindow]
    /\ ckRet = Pending

NextChunker == CallChunkDocument \/ CallChunkDocumentWithOverlap

SpecChunker == InitChunker /\ [][NextChunker]_vars

(* C12: whenever one of the two chunking methods returns chunks, for a
   non-empty content, a positive maxTokens and (for the overlapping method)
   an overlap from 0 to maxTokens - 1, there is at least one chunk, every
   chunk's token count is at least 1 and at most maxTokens, and it is the
   number of tokens of the chunk's own window; with any other arguments the
   method returns an error and no chunk. *)
C12_TokenCountWithinWindow ==
    ckRet.done =>
       LET valid == /\ ckArgs.tokens > 0
                    /\ ckArgs.maxTokens > 0
                    /\ ckArgs.overlapTokens >= 0
                    /\ ckArgs.fn = "ChunkDocumentWithOverlap" =>
                           ckArgs.overlapTokens < ckArgs.maxTokens
       IN /\ valid <=> ckRet.err = Nil
          /\ valid <=> ckRet.chunks # <<>>
          /\ \A k \in DOMAIN ckRet.chunks :
                /\ ckRet.chunks[k].TokenCount >= 1
                /\ ckRet.chunks[k].TokenCount <= ckArgs.maxTokens
                /\ ckRet.chunks[k].Body.valid
                /\ ckRet.chunks[k].TokenCount = Len(ckRet.chunks[k].Body.text)

(* The overlapping method cut a content into three or more windows, the
   last one shorter than maxTokens. *)
C12_Witness ==
    /\ ckRet.done
    /\ ckArgs.fn = "ChunkDocumentWithOverlap"
    /\ ckArgs.overlapTokens >= 1
    /\ Len(ckRet.chunks) >= 3
    /\ ckRet.chunks[Len(ckRet.chunks)].TokenCount < ckArgs.maxTokens

(* C13: the chunks c1..ck either method returns have distinct ids,
   ci.right = c(i+1).id and c(i+1).left = ci.id for i < k, c1 has no left
   and ck no right; a single chunk has neither. *)
C13_ChunkerListLinked ==
    ckRet.done =>
       LET cs == ckRet.chunks
           k == Len(cs)
       IN /\ \A a, b \in 1..k : a # b => cs[a].ID # cs[b].ID
          /\ \A a \in 1..k : cs[a].ID # NoId
          /\ \A a \in 1..k :
                /\ a < k => cs[a].RightChunkID = cs[a + 1].ID
                /\ a > 1 => cs[a].LeftChunkID = cs[a - 1].ID
          /\ k >= 1 => cs[1].LeftChunkID = NoId /\ cs[k].RightChunkID = NoId

(* ChunkDocument returned three or more chunks; the middle one points both ways. *)
C13_Witness ==
    /\ ckRet.done
    /\ ckArgs.fn = "ChunkDocument"
    /\ Len(ckRet.chunks) >= 3
    /\ ckRet.chunks[2].LeftChunkID = ckRet.chunks[1].ID
    /\ ckRet.chunks[2].RightChunkID = ckRet.chunks[3].ID

----------------------------------------------------------------------------
(* processChunks and chunkWorker (engine)                                   *)

ErrEmbeddingGenerationFailed == "embedding generation failed"
(* The error of a failed store call (BeginTx, ExecContext, Commit). *)
ErrStore == "sql: statement failed"

NoHist == [received |-> 0, embedCalls |-> 0, emitted |-> 0, err |-> Nil]

(* Outcomes of one store statement and of one embedder call.  With the
   context cancelled both can only fail.  GenerateEmbedding returns
   response.Data[0].Embedding as the provider sent it: a vector of the
   declared dimension, a vector of another length, or no vector at all. *)
DBOutcomes == IF cancelled THEN {"err"} ELSE {"ok", "err"}
OtherLength == 2
EmbedOutcomes ==
    {[err |-> TRUE, vec |-> VecNil]} \cup
    (IF cancelled THEN {}
     ELSE {[err |-> FALSE, vec |-> v] : v \in {VecNil, embDim, OtherLength}})

chunkFrame == <<documentID, concurrency, embDim>>

(* uuid.New() inside chunkWorker.  Identifiers are opaque and never collide;
   the chunk at index i gets the (2i-1)-th and its embedding the 2i-th
   identifier after nextId, whichever worker runs first. *)
FreshChunkID(i) == nextId + 2 * (i - 1)
FreshEmbeddingID(i) == nextId + 2 * (i - 1) + 1
outerFrame == <<regVars, unitVars, engineVars, importVars>>

(* A pool that starts one worker even when concurrency is below one. *)
PCSpawnAtLeastOne ==
    /\ pcPC = "run"
    /\ spawned < (IF concurrency < 1 THEN 1 ELSE concurrency)
    /\ spawned' = spawned + 1
    /\ wPc' = [wPc EXCEPT ![spawned + 1] = "recv"]
    /\ UNCHANGED <<chunks, chunkChan, chunkChanClosed, resultChan, pcPC, sent, nRead,
                   chunkErrors, pcRet, wCur, wEmb, wErr, wTx, hist, cancelled>>
    /\ UNCHANGED <<chunkFrame, outerFrame, storeVars>>

(* "for i := 0; i < concurrency; i++ { go e.chunkWorker(...) }" *)
PCSpawn ==
    /\ pcPC = "run"
    /\ spawned < concurrency
    /\ spawned' = spawned + 1
    /\ wPc' = [wPc EXCEPT ![spawned + 1] = "recv"]
    /\ UNCHANGED <<chunks, chunkChan, chunkChanClosed, resultChan, pcPC, sent, nRead,
                   chunkErrors, pcRet, wCur, wEmb, wErr, wTx, hist, cancelled>>
    /\ UNCHANGED <<chunkFrame, outerFrame, storeVars>>

(* "for _, chunk := range chunks { chunkChan <- chunk }": the channel is
   buffered to len(chunks), so the send never blocks. *)
PCSendChunk ==
    /\ pcPC = "run"
    /\ spawned = concurrency
    /\ sent < Len(chunks)
    /\ Len(chunkChan) < Len(chunks)
    /\ chunkChan' = Append(chunkChan, sent + 1)
    /\ sent' = sent + 1
    /\ UNCHANGED <<chunks, chunkChanClosed, resultChan, pcPC, spawned, nRead,
                   chunkErrors, pcRet, wPc, wCur, wEmb, wErr, wTx, hist, cancelled>>
    /\ UNCHANGED <<chunkFrame, outerFrame, storeVars>>

(* close(chunkChan) *)
PCClose ==
    /\ pcPC = "run"
    /\ spawned = concurrency
    /\ sent = Len(chunks)
    /\ ~chunkChanClosed
    /\ chunkChanClosed' = TRUE
    /\ UNCHANGED <<chunks, chunkChan, resultChan, pcPC, spawned, sent, nRead,
                   chunkErrors, pcRet, wPc, wCur, wEmb, wErr, wTx, hist, cancelled>>
    /\ UNCHANGED <<chunkFrame, outerFrame, storeVars>>

(* "result := <-resultChan" for i < len(chunks): blocks on an empty channel *)
PCCollect ==
    /\ pcPC = "run"
    /\ chunkChanClosed
    /\ nRead < Len(chunks)
    /\ resultChan # <<>>
    /\ resultChan' = Tail(resultChan)
    /\ nRead' = nRead + 1
    /\ chunkErrors' = IF Head(resultChan).Error # Nil
                      THEN Append(chunkErrors, Head(resultChan).Error)
                      ELSE chunkErrors
    /\ UNCHANGED <<chunks, chunkChan, chunkChanClosed, pcPC, spawned, sent,
                   pcRet, wPc, wCur, wEmb, wErr, wTx, hist, cancelled>>
    /\ UNCHANGED <<chunkFrame, outerFrame, storeVars>>

(* A processChunks that reports success whatever the results carried. *)
ProcessChunksIgnoreErrors(errs) == Nil

(* "if len(errorsList) > 0 { return ErrChunkProcessingFailed }; return nil" *)
ProcessChunksResult(errs) ==
    IF Len(errs) > 0 THEN ErrChunkProcessingFailed ELSE Nil

PCReturn ==
    /\ pcPC = "run"
    /\ chunkChanClosed
    /\ nRead = Len(chunks)
    /\ pcRet' = ProcessChunksResult(chunkErrors)
    /\ pcPC' = "done"
    /\ UNCHANGED <<chunks, chunkChan, chunkChanClosed, resultChan, spawned, sent, nRead,
                   chunkErrors, wPc, wCur, wEmb, wErr, wTx, hist, cancelled>>
    /\ UNCHANGED <<chunkFrame, outerFrame, storeVars>>

(* "for chunk := range chunkChan": take the next chunk, set its document id
   and a fresh id; leave the loop once the channel is closed and drained. *)
WRecv(w) ==
    /\ wPc[w] = "recv"
    /\ IF chunkChan # <<>>
       THEN LET i == Head(chunkChan)
            IN /\ chunkChan' = Tail(chunkChan)
               /\ chunks' = [chunks EXCEPT ![i].DocumentID = documentID, ![i].ID = FreshChunkID(i)]
               /\ wCur' = [wCur EXCEPT ![w] = i]
               /\ UNCHANGED <<wEmb, wErr>>
               /\ hist' = [hist EXCEPT ![i].received = @ + 1]
               /\ wPc' = [wPc EXCEPT ![w] = IF chunks[i].Body.valid THEN "embed" ELSE "begin"]
       ELSE /\ chunkChanClosed
            /\ wPc' = [wPc EXCEPT ![w] = "exit"]
            /\ UNCHANGED <<chunkChan, chunks, wCur, wEmb, wErr, hist>>
    /\ UNCHANGED <<chunkChanClosed, resultChan, pcPC, spawned, sent, nRead,
                   chunkErrors, pcRet, wTx, cancelled>>
    /\ UNCHANGED <<chunkFrame, outerFrame, storeVars>>

(* The embedding record and the slot chosen by "switch embedder.GetDimension()". *)
NewEmbedding(id, chunkID, dim, vec) ==
    LET e == [nil |-> FALSE, ID |-> id, ObjectID |-> chunkID, ObjectType |-> "chunk",
              Embedding768 |-> VecNil, Embedding1536 |-> VecNil, Embedding3072 |-> VecNil]
    IN CASE dim = embeddingDim768 -> [emb |-> [e EXCEPT !.Embedding768 = vec], err |-> Nil]
         [] dim = embeddingDim1536 -> [emb |-> [e EXCEPT !.Embedding1536 = vec], err |-> Nil]
         [] dim = embeddingDim3072 -> [emb |-> [e EXCEPT !.Embedding3072 = vec], err |-> Nil]
         [] OTHER -> [emb |-> e, err |-> ErrUnsupportedEmbeddingDim]

(* chunkWorker, "if chunk.Body != nil { ... }": the embedder call and the slot
   selection.  errPc is where the worker goes after an error result. *)
WEmbedWith(w, errPc) ==
    /\ wPc[w] = "embed"
    /\ \E out \in EmbedOutcomes :
          LET i == wCur[w]
              r == IF out.err
                   THEN [emb |-> NoEmbedding, err |-> ErrEmbeddingGenerationFailed]
                   ELSE NewEmbedding(FreshEmbeddingID(i), chunks[i].ID, embDim, out.vec)
          IN /\ wEmb' = [wEmb EXCEPT ![w] = r.emb]
             /\ wErr' = [wErr EXCEPT ![w] = r.err]
             /\ hist' = [hist EXCEPT ![i].embedCalls = @ + 1]
             /\ wPc' = [wPc EXCEPT ![w] = IF r.err # Nil THEN errPc ELSE "begin"]
    /\ UNCHANGED <<chunks, chunkChan, chunkChanClosed, resultChan, pcPC, spawned, sent, nRead,
                   chunkErrors, pcRet, wCur, wTx, cancelled>>
    /\ UNCHANGED <<chunkFrame, outerFrame, storeVars>>

(* A worker that "continue"s after an error without emitting the result. *)
WEmbedNoResult(w) == WEmbedWith(w, "recv")

WEmbed(w) == WEmbedWith(w, "send")

(* The row "INSERT INTO chunks" writes for a chunk. *)
ChunkRow(chunk) ==
    [id |-> chunk.ID, document_id |-> chunk.DocumentID,
     left_chunk_id |-> chunk.LeftChunkID, right_chunk_id |-> chunk.RightChunkID,
     body |-> chunk.Body]

(* FOREIGN KEY clauses of the chunks table, when the store enforces them:
   document_id, left_chunk_id and right_chunk_id must name existing rows
   (rows of the open transaction count). *)
ChunkForeignKeysOk(row, tx) ==
    \/ ~fkEnforced
    \/ /\ row.document_id \in {d.id : d \in documents}
       /\ \A ref \in {row.left_chunk_id, row.right_chunk_id} \ {NoId} :
             ref \in {c.id : c \in chunksTbl \cup tx.chunkRows}

(* "switch { case embedding.Embedding768 != nil: ... }": the column and the
   vector written, or no column when every vector field is nil. *)
EmbeddingColumn(e) ==
    CASE e.Embedding768 # VecNil -> [column |-> embeddingDim768, value |-> e.Embedding768]
      [] e.Embedding1536 # VecNil -> [column |-> embeddingDim1536, value |-> e.Embedding1536]
      [] e.Embedding3072 # VecNil -> [column |-> embeddingDim3072, value |-> e.Embedding3072]
      [] OTHER -> [column |-> 0, value |-> VecNil]

EmbeddingRow(e) ==
    [id |-> e.ID, object_id |-> e.ObjectID, object_type |-> e.ObjectType,
     column |-> EmbeddingColumn(e).column, veclen |-> EmbeddingColumn(e).value]

(* saveChunkAndEmbedding up to its last statement: db.BeginTx, the chunk
   insert, and "if embedding != nil" the embedding insert.  Each of the three
   store calls may fail; the first error is returned and the deferred
   Rollback discards the transaction.  inTx says whether the chunk row goes
   to the open transaction or straight to the table. *)
WInsertWith(w, inTx) ==
    /\ wPc[w] = "begin"
    /\ \E begin \in DBOutcomes, execChunk \in DBOutcomes, execEmb \in DBOutcomes :
          LET row == ChunkRow(chunks[wCur[w]])
              chunkOk == begin = "ok" /\ execChunk = "ok" /\ ChunkForeignKeysOk(row, NoTx)
              column == EmbeddingColumn(wEmb[w]).column
              embOk == wEmb[w].nil \/ (column # 0 /\ execEmb = "ok")
          IN /\ begin = "err" => execChunk = "err"
             /\ (~chunkOk \/ wEmb[w].nil \/ column = 0) => execEmb = "err"
             /\ chunksTbl' = IF chunkOk /\ ~inTx THEN chunksTbl \cup {row} ELSE chunksTbl
             /\ IF chunkOk /\ embOk
                THEN /\ wTx' = [wTx EXCEPT ![w] =
                                  [open |-> TRUE,
                                   chunkRows |-> IF inTx THEN {row} ELSE {},
                                   embeddingRows |-> IF wEmb[w].nil THEN {}
                                                     ELSE {EmbeddingRow(wEmb[w])}]]
                     /\ wPc' = [wPc EXCEPT ![w] = "commit"]
                     /\ UNCHANGED wErr
                ELSE /\ wErr' = [wErr EXCEPT ![w] =
                                   IF chunkOk /\ column = 0 THEN ErrNoEmbeddingVector
                                   ELSE ErrStore]
                     /\ wPc' = [wPc EXCEPT ![w] = "send"]
                     /\ UNCHANGED wTx
    /\ UNCHANGED <<chunks, chunkChan, chunkChanClosed, resultChan, pcPC, spawned, sent, nRead,
                   chunkErrors, pcRet, wCur, wEmb, hist, cancelled>>
    /\ UNCHANGED <<chunkFrame, outerFrame>>
    /\ UNCHANGED <<sources, downloads, documents, documentMeta, embeddingsTbl, fkEnforced, nextId>>

(* A chunk insert that bypasses the transaction and writes the table at once. *)
WInsertAutocommit(w) == WInsertWith(w, FALSE)

WInsert(w) == WInsertWith(w, TRUE)

(* A save that swallows the error of a failed commit. *)
SaveErrorDropped(err) == Nil

(* chunkWorker: "if err := e.saveChunkAndEmbedding(...); err != nil { result.Error = err }" *)
SaveError(err) == err

(* saveChunkAndEmbedding: "return tx.Commit()": all rows of the transaction
   become visible together, or none does. *)
WCommit(w) ==
    /\ wPc[w] = "commit"
    /\ \E o \in DBOutcomes :
          IF o = "ok"
          THEN /\ chunksTbl' = chunksTbl \cup wTx[w].chunkRows
               /\ embeddingsTbl' = embeddingsTbl \cup wTx[w].embeddingRows
               /\ UNCHANGED wErr
          ELSE /\ wErr' = [wErr EXCEPT ![w] = SaveError(ErrStore)]
               /\ UNCHANGED <<chunksTbl, embeddingsTbl>>
    /\ wTx' = [wTx EXCEPT ![w] = NoTx]
    /\ wPc' = [wPc EXCEPT ![w] = "send"]
    /\ UNCHANGED <<chunks, chunkChan, chunkChanClosed, resultChan, pcPC, spawned, sent, nRead,
                   chunkErrors, pcRet, wCur, wEmb, hist, cancelled>>
    /\ UNCHANGED <<chunkFrame, outerFrame>>
    /\ UNCHANGED <<sources, downloads, documents, documentMeta, fkEnforced, nextId>>

(* "resultChan <- result": the channel is buffered to len(chunks) *)
WSend(w) ==
    /\ wPc[w] = "send"
    /\ Len(resultChan) < Len(chunks)
    /\ resultChan' = Append(resultChan, [Chunk |-> wCur[w], Error |-> wErr[w]])
    /\ hist' = [hist EXCEPT ![wCur[w]].emitted = @ + 1, ![wCur[w]].err = wErr[w]]
    /\ wPc' = [wPc EXCEPT ![w] = "recv"]
    /\ wCur' = [wCur EXCEPT ![w] = 0]
    /\ wEmb' = [wEmb EXCEPT ![w] = NoEmbedding]
    /\ wErr' = [wErr EXCEPT ![w] = Nil]
    /\ UNCHANGED <<chunks, chunkChan, chunkChanClosed, pcPC, spawned, sent, nRead,
                   chunkErrors, pcRet, wTx, cancelled>>
    /\ UNCHANGED <<chunkFrame, outerFrame, storeVars>>

(* The caller's context is cancelled or its deadline passes. *)
Cancel ==
    /\ pcPC = "run"
    /\ ~cancelled
    /\ cancelled' = TRUE
    /\ UNCHANGED <<chunks, chunkChan, chunkChanClosed, resultChan, pcPC, spawned, sent, nRead,
                   chunkErrors, pcRet, wPc, wCur, wEmb, wErr, wTx, hist>>
    /\ UNCHANGED <<chunkFrame, outerFrame, storeVars>>

WorkerStep(w) ==
    \/ WRecv(w)
    \/ WEmbed(w)
    \/ WInsert(w)
    \/ WCommit(w)
    \/ WSend(w)

ChunksProgress ==
    \/ PCSpawn
    \/ PCSendChunk
    \/ PCClose
    \/ PCCollect
    \/ PCReturn
    \/ \E w \in Workers : WorkerStep(w)

NextChunks == ChunksProgress \/ Cancel

(* A call processChunks(ctx, chunks, documentID, embedder, db, concurrency):
   the chunks are linked as the chunker links them, at most one of them has
   a nil body, the Document row exists. *)
DocRow(id, sourceId, downloadId, format) ==
    [id |-> id, source_id |-> sourceId, download_id |-> downloadId, format |-> format]

InitChunkLists ==
    {<<>>} \cup
    UNION { LET linked == ChunkDocument(TokensOf(n), 1, 2).chunks
            IN { [i \in 1..n |-> IF i = nilAt
                                 THEN [linked[i] EXCEPT !.Body = NilBody]
                                 ELSE linked[i]] : nilAt \in 0..n }
            : n \in 1..MaxChunks }

InitChunks ==
    /\ importers = EmptyRegistry
    /\ transformers = EmptyRegistry
    /\ chunkers = EmptyRegistry
    /\ embedders = EmptyRegistry
    /\ updaters = EmptyRegistry
    /\ RegIdle /\ EngineIdle /\ ImportIdle /\ UnitIdle
    /\ sources = {} /\ downloads = {} /\ documentMeta = {}
    /\ documents = {DocRow(1, NoId, NoId, "json")}
    /\ chunksTbl = {} /\ embeddingsTbl = {}
    /\ fkEnforced \in BOOLEAN
    /\ chunks \in InitChunkLists
    /\ nextId = Len(chunks) + 2
    /\ documentID = 1
    /\ concurrency \in 0..MaxConcurrency
    /\ embDim \in {embeddingDim768, embeddingDim1536, embeddingDim3072, 999}
    /\ chunkChan = <<>> /\ chunkChanClosed = FALSE /\ resultChan = <<>>
    /\ pcPC = "run"
    /\ spawned = 0 /\ sent = 0 /\ nRead = 0
    /\ chunkErrors = <<>>
    /\ pcRet = "pending"
    /\ wPc = [w \in Workers |-> "unborn"]
    /\ wCur = [w \in Workers |-> 0]
    /\ wEmb = [w \in Workers |-> NoEmbedding]
    /\ wErr = [w \in Workers |-> Nil]
    /\ wTx = [w \in Workers |-> NoTx]
    /\ hist = [i \in 1..Len(chunks) |-> NoHist]
    /\ cancelled = FALSE

SpecChunks == InitChunks /\ [][NextChunks]_vars

(* The Go scheduler runs every runnable goroutine eventually. *)
FairSpecChunks == SpecChunks /\ WF_vars(ChunksProgress)


----------------------------------------------------------------------------
(* Properties of processChunks                                              *)

ChunkIdx == 1..Len(chunks)

(* The workers that hold chunk i between taking it and emitting its result. *)
HoldersOf(i) ==
    {w \in Workers : wCur[w] = i /\ wPc[w] \in {"embed", "begin", "commit", "send"}}

Emitted == {i \in ChunkIdx : hist[i].emitted > 0}

ChunkRowsOf(i) == {r \in chunksTbl : r.id = chunks[i].ID}
EmbeddingRowsOf(i) ==
    {e \in embeddingsTbl : e.object_id = chunks[i].ID /\ e.object_type = "chunk"}

C2_Accounting ==
    /\ \A i \in ChunkIdx :
          /\ hist[i].received \in {0, 1}
          /\ hist[i].emitted \in {0, 1}
          /\ hist[i].received = hist[i].emitted + Cardinality(HoldersOf(i))
    /\ nRead + Len(resultChan) = Cardinality(Emitted)
    /\ \A w \in Workers : wPc[w] = "send" => Len(resultChan) < Len(chunks)
    /\ pcPC = "done" =>
          /\ nRead = Len(chunks)
          /\ resultChan = <<>> /\ chunkChan = <<>>
          /\ \A i \in ChunkIdx : hist[i].received = 1 /\ hist[i].emitted = 1

C2_Returned ==
    /\ pcPC = "done"
    /\ \A w \in 1..concurrency : wPc[w] = "exit"

(* C2: with at least one worker, whatever the embedder calls and the store
   transactions do (succeed, fail, or fail because the context is cancelled),
   every chunk is taken by exactly one worker and gets exactly one result, no
   worker ever blocks on emitting a result, and processChunks returns, after
   reading exactly len(chunks) results, with every worker gone. *)
C2_ExactlyOnceAndReturns ==
    /\ [](concurrency >= 1 => C2_Accounting)
    /\ (concurrency >= 1) ~> C2_Returned

C2_Witness ==
    /\ C2_Returned
    /\ concurrency >= 2
    /\ Len(chunks) >= 2
    /\ cancelled
    /\ \E i \in ChunkIdx : hist[i].err = ErrEmbeddingGenerationFailed
    /\ \E i \in ChunkIdx : hist[i].err = ErrStore

(* C3: processChunks returns ErrChunkProcessingFailed exactly when one of
   the per-chunk results carried an error, and nil otherwise (also for an
   empty list and for nil bodies); a result carries
   ErrUnsupportedEmbeddingDim only for a dimension outside 768/1536/3072. *)
C3_FailsIffSomeResultFailed ==
    /\ pcPC # "done" => pcRet = "pending"
    /\ pcPC = "done" =>
          /\ pcRet \in {Nil, ErrChunkProcessingFailed}
          /\ pcRet = ErrChunkProcessingFailed <=> \E i \in ChunkIdx : hist[i].err # Nil
    /\ \A i \in ChunkIdx :
          /\ hist[i].err \in {Nil, ErrEmbeddingGenerationFailed, ErrUnsupportedEmbeddingDim,
                              ErrNoEmbeddingVector, ErrStore}
          /\ hist[i].err = ErrUnsupportedEmbeddingDim =>
                embDim \notin {embeddingDim768, embeddingDim1536, embeddingDim3072}
          /\ ~chunks[i].Body.valid => hist[i].err \in {Nil, ErrStore}

C3_Witness ==
    /\ pcPC = "done"
    /\ pcRet = ErrChunkProcessingFailed
    /\ \E i, j \in ChunkIdx :
          /\ hist[i].err = ErrUnsupportedEmbeddingDim
          /\ ~chunks[j].Body.valid /\ hist[j].err = Nil

(* C4: in every state, a chunk with a body that a worker has taken has
   either its chunk row and exactly one embedding row (object_id its id,
   object_type "chunk") or neither; an open transaction holds rows of the one
   chunk its worker is handling, and no chunk is in two workers' hands. *)
C4_ChunkAndEmbeddingAtomic ==
    /\ \A i \in ChunkIdx :
          (chunks[i].Body.valid /\ hist[i].received > 0) =>
             /\ Cardinality(ChunkRowsOf(i)) = Cardinality(EmbeddingRowsOf(i))
             /\ Cardinality(ChunkRowsOf(i)) <= 1
    /\ \A w \in Workers :
          /\ wTx[w].open => wPc[w] = "commit"
          /\ \A r \in wTx[w].chunkRows : r.id = chunks[wCur[w]].ID
          /\ \A e \in wTx[w].embeddingRows : e.object_id = chunks[wCur[w]].ID
          /\ Cardinality(wTx[w].chunkRows) <= 1
          /\ Cardinality(wTx[w].embeddingRows) <= 1
    /\ \A i \in ChunkIdx : Cardinality(HoldersOf(i)) <= 1

C4_Witness ==
    \E i, j \in ChunkIdx :
       /\ chunks[i].Body.valid /\ chunks[j].Body.valid
       /\ hist[i].err = ErrStore /\ ChunkRowsOf(i) = {} /\ EmbeddingRowsOf(i) = {}
       /\ hist[j].emitted = 1 /\ hist[j].err = Nil
       /\ ChunkRowsOf(j) # {} /\ EmbeddingRowsOf(j) # {}

(* The persisted chunk rows of the document, in chunker order. *)
PersistedIdx == {i \in ChunkIdx : ChunkRowsOf(i) # {}}
DocumentChunkRows == {r \in chunksTbl : r.document_id = documentID}

(* C5: once the chunks of a document of two or more chunks are processed,
   the persisted chunk rows form a doubly linked list in chunker order: an
   earlier row's right_chunk_id is the next row's id, a later row's
   left_chunk_id is the previous row's id, the first row has no left, the
   last no right, and every non-null left/right names a persisted chunk row
   of the same document. *)
C5_PersistedChunksLinked ==
    (pcPC = "done" /\ Len(chunks) >= 2) =>
       /\ \A i \in PersistedIdx, j \in PersistedIdx :
             j = i + 1 =>
                \A a \in ChunkRowsOf(i), b \in ChunkRowsOf(j) :
                   a.right_chunk_id = b.id /\ b.left_chunk_id = a.id
       /\ \A a \in ChunkRowsOf(1) : a.left_chunk_id = NoId
       /\ \A b \in ChunkRowsOf(Len(chunks)) : b.right_chunk_id = NoId
       /\ \A r \in DocumentChunkRows :
             \A ref \in {r.left_chunk_id, r.right_chunk_id} \ {NoId} :
                ref \in {c.id : c \in DocumentChunkRows}

(* The run the linkage is about: every chunk of a multi-chunk document was
   persisted without error. *)
C5_Witness ==
    /\ pcPC = "done" /\ pcRet = Nil
    /\ Len(chunks) >= 2
    /\ PersistedIdx = ChunkIdx

(* C6: the persisted chunk rows are exactly the chunks whose result carried
   no error.  A nil-body chunk is stored with no embedding row and no
   embedder call; a chunk with a body is stored only after one successful
   embedder call, with a supported dimension, together with its embedding
   row.  When processChunks returns every chunk was processed, and no step
   ever removes a committed row. *)
C6_Stored ==
    /\ \A i \in Emitted : ChunkRowsOf(i) # {} <=> hist[i].err = Nil
    /\ \A i \in ChunkIdx :
          /\ ~chunks[i].Body.valid => hist[i].embedCalls = 0 /\ EmbeddingRowsOf(i) = {}
          /\ (chunks[i].Body.valid /\ ChunkRowsOf(i) # {}) =>
                /\ hist[i].embedCalls = 1
                /\ embDim \in {embeddingDim768, embeddingDim1536, embeddingDim3072}
                /\ EmbeddingRowsOf(i) # {}
          /\ hist[i].received = 0 => ChunkRowsOf(i) = {}
    /\ pcPC = "done" => Emitted = ChunkIdx

C6_PersistedIffNoError ==
    /\ []C6_Stored
    /\ [][chunksTbl \subseteq chunksTbl' /\ embeddingsTbl \subseteq embeddingsTbl']_vars

C6_Witness ==
    /\ pcPC = "done"
    /\ \E i, j \in ChunkIdx :
          /\ ~chunks[i].Body.valid /\ hist[i].err = Nil /\ ChunkRowsOf(i) # {}
          /\ chunks[j].Body.valid /\ hist[j].err # Nil /\ ChunkRowsOf(j) = {}

(* C14: every persisted Embedding row holds a vector whose length is the
   declared dimension of the embedder, stored in the one slot (768, 1536 or
   3072) that matches the vector's length. *)
C14_VectorLengthIsDeclaredDimension ==
    \A e \in embeddingsTbl :
       /\ e.veclen = embDim
       /\ e.column \in {embeddingDim768, embeddingDim1536, embeddingDim3072}
       /\ e.column = e.veclen

(* A committed Embedding row whose vector is shorter than the slot it is in. *)
C14_Witness ==
    /\ pcPC = "done" /\ pcRet = Nil
    /\ \E e \in embeddingsTbl : e.column = embDim /\ e.veclen = OtherLength

C11_NoWorkers == concurrency = 0 /\ Len(chunks) >= 1

C11_Blocked ==
    /\ pcPC = "run" /\ pcRet = "pending"
    /\ spawned = 0
    /\ \A w \in Workers : wPc[w] = "unborn"
    /\ nRead = 0 /\ resultChan = <<>>
    /\ chunksTbl = {} /\ embeddingsTbl = {}

(* C11: with concurrency 0 and at least one chunk, processChunks starts no
   worker, no result ever arrives and it never returns; it queues every
   chunk, closes the job channel and then stays blocked for ever on its
   first read of the result channel, cancelled context or not. *)
C11_ZeroConcurrencyDeadlocks ==
    /\ [](C11_NoWorkers => C11_Blocked)
    /\ C11_NoWorkers ~> [](chunkChanClosed /\ sent = Len(chunks) /\ C11_Blocked)

(* processChunks without workers has queued all chunks, closed the channel
   and waits for the first result, its context cancelled meanwhile. *)
C11_Witness ==
    /\ C11_NoWorkers
    /\ Len(chunks) = MaxChunks
    /\ chunkChanClosed /\ Len(chunkChan) = Len(chunks)
    /\ cancelled
    /\ pcPC = "run"

----------------------------------------------------------------------------
(* ProcessSource: importers (GitHub, WP-JSON), ProcessDocument              *)

minURLParts == 2
httpOKStatus == 200

ErrNotGitHubURL == "not a GitHub URL"
ErrInvalidGitHubURLFormat == "invalid GitHub URL format"
ErrImportCompleted == "github: import completed with errors"
ErrNoFilesImported == "no files were successfully imported"
ErrNotWordPressAPI == "not a WordPress JSON API endpoint"
ErrWPImportCompleted == "wp-json: import completed with errors"
ErrNoPostsImported == "no posts were successfully imported"
ErrAllImportsFailed == "all imports failed, first error"
ErrCannotTransformDownload == "cannot transform this download, its not a valid GitHub file"
ErrCannotTransformWPDownload == "cannot transform this download, not a valid WordPress JSON response"
(* An error of the network or of json decoding while fetching. *)
ErrFetch == "request failed"

(* The URLs ProcessSource is called with: a GitHub repository, a WordPress
   endpoint, a WordPress endpoint served from github.com, a page that is
   neither, and a GitHub URL without a repository. *)
URLs ==
    {[host |-> "github.com", parts |-> 2, wpjson |-> FALSE],
     [host |-> "blog.example.com", parts |-> 4, wpjson |-> TRUE],
     [host |-> "github.com", parts |-> 4, wpjson |-> TRUE],
     [host |-> "example.com", parts |-> 1, wpjson |-> FALSE],
     [host |-> "github.com", parts |-> 1, wpjson |-> FALSE]}

(* GitHubImporter.ValidateSource via parseGitHubURL *)
GitHubValidateSource(u) ==
    IF u.host # "github.com" /\ u.host # "api.github.com" THEN ErrNotGitHubURL
    ELSE IF u.parts < minURLParts THEN ErrInvalidGitHubURLFormat
    ELSE Nil

(* WPJSONImporter.ValidateSource *)
WPValidateSource(u) == IF ~u.wpjson THEN ErrNotWordPressAPI ELSE Nil

ValidateSource(tag, u) ==
    IF tag = "github" THEN GitHubValidateSource(u) ELSE WPValidateSource(u)

Registered(reg) == {t \in Tags : reg[t] # NoAdapter}

(* A resolution that returns a registered importer without validating. *)
DetermineSourceTypeUnvalidated(u) == Registered(importers)

(* determineSourceType: the tags "range e.importers" can return.  Go visits
   map entries in an unspecified order, so each importer that validates the
   URL can be the first one found. *)
DetermineSourceType(u) ==
    {t \in Registered(importers) : ValidateSource(t, u) = Nil}

(* The host column of a Source row that is NULL (source.Host == nil). *)
NullHost == "NULL"

(* A resolution that falls back to the raw URL when the host is absent. *)
DetermineSourceTypeFromRawURL(source) ==
    IF source.host = NullHost /\ source.raw_url.host \notin {"github.com", "api.github.com"}
    THEN [type |-> "", err |-> ErrCannotDetermineSourceType]
    ELSE IF source.host \in {"github.com", "api.github.com"} \/ source.host = NullHost
    THEN [type |-> "github", err |-> Nil]
    ELSE [type |-> "wp-json", err |-> Nil]

(* determineSourceTypeFromSource: by the host of the Source row *)
DetermineSourceTypeFromSource(source) ==
    IF source.host = NullHost THEN [type |-> "", err |-> ErrCannotDetermineSourceType]
    ELSE IF source.host = "github.com" \/ source.host = "api.github.com"
    THEN [type |-> "github", err |-> Nil]
    ELSE [type |-> "wp-json", err |-> Nil]

(* uuid.New() in createSource / createDownload for the i-th item, in
   createDocument, and the first identifier left for the chunker. *)
SourceIdOf(i) == 2 * i - 1
DownloadIdOf(i) == 2 * i
NewDocumentID == 2 * MaxItems + 1
ChunkerBase == 2 * MaxItems + 2

SourceRow(id, rawURL, host, format) ==
    [id |-> id, raw_url |-> rawURL, host |-> host, format |-> format]
DownloadRow(id, sourceId, at, status, sha) ==
    [id |-> id, source_id |-> sourceId, downloaded_at |-> at, status_code |-> status,
     hasGitHubSHA |-> sha]

(* downloaded_at NULL, and the time.Now() the importers stamp their rows with *)
NullTime == 0
ImportTime == 1

keepLimit == 3

(* An ordering that puts the rows without downloaded_at first. *)
SortsBeforeNullsFirst(a, b) ==
    \/ a.downloaded_at = NullTime /\ b.downloaded_at # NullTime
    \/ /\ a.downloaded_at # NullTime /\ b.downloaded_at # NullTime
       /\ a.downloaded_at > b.downloaded_at

(* "ORDER BY downloaded_at DESC NULLS LAST": a must come before b *)
SortsBefore(a, b) ==
    \/ a.downloaded_at # NullTime /\ b.downloaded_at = NullTime
    \/ /\ a.downloaded_at # NullTime /\ b.downloaded_at # NullTime
       /\ a.downloaded_at > b.downloaded_at

(* "SELECT id ... ORDER BY ... LIMIT 3": the sets of rows the subquery can
   return.  Rows the ordering does not separate come in an unspecified order,
   so any of them can take the last places. *)
Last3(rows) ==
    {K \in SUBSET rows :
        /\ Cardinality(K) = (IF Cardinality(rows) < keepLimit THEN Cardinality(rows)
                             ELSE keepLimit)
        /\ \A k \in K, r \in rows \ K : ~SortsBefore(r, k)}

(* The trigger maintain_last_3_downloads, AFTER INSERT of a row of source
   sourceId into tbl: the tables it can leave. *)
MaintainLast3(tbl, sourceId) ==
    LET mine == {d \in tbl : d.source_id = sourceId}
    IN {(tbl \ mine) \cup K : K \in Last3(mine)}

(* CHECK (format IN ('json', 'yml', 'yaml')) on sources and documents *)
FormatCheckOk(format) == format \in {"json", "yml", "yaml"}

(* The adapters cmd/import.go registers; Optional are the ones a run is
   also started without, one at a time. *)
Shipped ==
    {<<"importer", "github">>, <<"importer", "wp-json">>,
     <<"transformer", "github">>, <<"transformer", "wp-json">>,
     <<"chunker", "token">>, <<"embedder", "model">>}

Optional ==
    {<<"importer", "github">>, <<"transformer", "github">>,
     <<"chunker", "token">>, <<"embedder", "model">>}

(* The sets of adapters a run is started without: none, one optional
   adapter, or both importers. *)
MissingSets ==
    {{}} \cup {{a} : a \in Optional} \cup
    {{<<"importer", "github">>, <<"importer", "wp-json">>}}

RegistryWith(kind, missing) ==
    [t \in Tags |-> IF <<kind, t>> \in Shipped \ missing THEN 1 ELSE NoAdapter]

(* ProcessSource up to the call of Import: determineSourceType, then the
   lookup in e.importers. *)
PSBegin ==
    /\ enginePc = "start"
    /\ IF DetermineSourceType(sourceURL) = {}
       THEN /\ psRet' = ErrNoImporterCanHandle
            /\ enginePc' = "done"
            /\ UNCHANGED sourceType
       ELSE \E t \in DetermineSourceType(sourceURL) :
               /\ sourceType' = t
               /\ IF importers[t] = NoAdapter
                  THEN psRet' = ErrNoImporterRegistered /\ enginePc' = "done"
                  ELSE /\ enginePc' = IF t = "github" THEN "gh.enum" ELSE "wp.enum"
                       /\ UNCHANGED psRet
    /\ UNCHANGED <<sourceURL, options, trace, content, importResult, importErr, downloadID>>
    /\ UNCHANGED <<regVars, unitVars, storeVars, importVars, chunkVars>>

(* What one item of an import does to the store: a failure before or in the
   source insert writes nothing, a failed download insert leaves the Source
   row, success leaves both rows. *)
ItemOutcomes == {"fetchErr", "downloadErr", "ok"}

ItemError(o) == IF o = "fetchErr" THEN ErrFetch ELSE ErrStore

ItemResult(i, o) ==
    IF o = "ok"
    THEN [nil |-> FALSE, SourceID |-> SourceIdOf(i), DownloadID |-> DownloadIdOf(i), Error |-> Nil]
    ELSE [nil |-> FALSE, SourceID |-> NoId, DownloadID |-> NoId, Error |-> ItemError(o)]

(* createSource and createDownload of item i; sha says whether the download
   headers carry X-GitHub-SHA. *)
ItemWrites(i, o, host, sha) ==
    /\ sources' = IF o \in {"downloadErr", "ok"} /\ FormatCheckOk("json")
                  THEN sources \cup {SourceRow(SourceIdOf(i), sourceURL, host, "json")}
                  ELSE sources
    /\ downloads' \in IF o = "ok"
                      THEN MaintainLast3(downloads \cup {DownloadRow(DownloadIdOf(i), SourceIdOf(i),
                                                                    ImportTime, httpOKStatus, sha)},
                                         SourceIdOf(i))
                      ELSE {downloads}
    /\ UNCHANGED <<documents, documentMeta, chunksTbl, embeddingsTbl, fkEnforced, nextId>>

StatusNotFound == 404

(* What the request for one item (a file's contents, a post) is answered
   with: no usable answer (the request failed or the body did not decode),
   status 200 with the item, or another status. *)
ItemResponses ==
    {[reqErr |-> TRUE, status |-> 0],
     [reqErr |-> FALSE, status |-> httpOKStatus],
     [reqErr |-> FALSE, status |-> StatusNotFound]}

(* An entry of fetchLog: the answer, and the content the importer took from
   it and handed to createDownload (the body of the Download row). *)
Fetched(resp, body) == [status |-> resp.status, body |-> body]

(* "lastResult = result": Import keeps the latest successful result *)
KeepFirst(prev, r) == IF prev.nil THEN r ELSE prev

KeepLast(prev, r) == r

(* The per-item bookkeeping both Import loops share. *)
Record(i, r) ==
    /\ IF r.Error # Nil
       THEN errorsList' = Append(errorsList, r.Error) /\ UNCHANGED lastResult
       ELSE lastResult' = KeepLast(lastResult, r) /\ UNCHANGED errorsList
    /\ recvLog' = Append(recvLog, [item |-> i, result |-> r])

----------------------------------------------------------------------------
(* GitHubImporter.Import                                                    *)

(* ValidateSource, parseGitHubURL, getRepoTree, filterFiles *)
GHEnumerate ==
    /\ enginePc = "gh.enum"
    /\ \/ /\ importResult' = NilResult
          /\ importErr' = IF GitHubValidateSource(sourceURL) # Nil
                          THEN GitHubValidateSource(sourceURL) ELSE ErrFetch
          /\ enginePc' = "imported"
          /\ UNCHANGED <<items, fetchLog>>
       \/ /\ GitHubValidateSource(sourceURL) = Nil
          /\ \E n \in 0..MaxItems :
                /\ items' = n
                /\ fetchLog' = [i \in 1..n |-> <<>>]
          /\ enginePc' = "gh.files"
          /\ UNCHANGED <<importResult, importErr>>
    /\ UNCHANGED <<sourceURL, options, trace, content, sourceType, downloadID, psRet>>
    /\ UNCHANGED <<fileIdx, lastResult, errorsList, postPc, semaphore, results, collected, recvLog>>
    /\ UNCHANGED <<regVars, unitVars, storeVars, chunkVars>>

(* getFileContent: an error of client.Do or of the decoder is returned; on
   a status other than 200 it executes "return "", err" with the err of
   client.Do, which is nil there: empty content and no error. *)
GetFileContent(resp) ==
    IF resp.reqErr THEN [content |-> "", err |-> ErrFetch]
    ELSE IF resp.status # httpOKStatus THEN [content |-> "", err |-> Nil]
    ELSE [content |-> "file", err |-> Nil]

(* One iteration of "for _, file := range filteredFiles": importFile, that is
   getFileContent, createSource and createDownload. *)
GHImportFile ==
    /\ enginePc = "gh.files"
    /\ fileIdx <= items
    /\ \E resp \in ItemResponses, o \in ItemOutcomes :
          /\ o = "fetchErr" <=> GetFileContent(resp).err # Nil
          /\ ItemWrites(fileIdx, o, "github.com", TRUE)
          /\ Record(fileIdx, ItemResult(fileIdx, o))
          /\ fetchLog' = [fetchLog EXCEPT ![fileIdx] =
                             Append(@, Fetched(resp, GetFileContent(resp).content))]
    /\ fileIdx' = fileIdx + 1
    /\ UNCHANGED <<items, postPc, semaphore, results, collected>>
    /\ UNCHANGED <<regVars, unitVars, engineVars, chunkVars>>

(* The statements of GitHubImporter.Import after the loop.  In the branch
   "len(errorsList) > 0" with no lastResult the function returns the err of
   getRepoTree, which is nil there: the loop's err is a separate variable. *)
GitHubImportReturn(last, errs) ==
    IF Len(errs) > 0
    THEN IF ~last.nil
         THEN [result |-> [last EXCEPT !.Error = ErrImportCompleted], err |-> Nil]
         ELSE [result |-> NilResult, err |-> Nil]
    ELSE IF ~last.nil
         THEN [result |-> last, err |-> Nil]
         ELSE [result |-> NilResult, err |-> ErrNoFilesImported]

GHReturn ==
    /\ enginePc = "gh.files"
    /\ fileIdx > items
    /\ importResult' = GitHubImportReturn(lastResult, errorsList).result
    /\ importErr' = GitHubImportReturn(lastResult, errorsList).err
    /\ enginePc' = "imported"
    /\ UNCHANGED <<sourceURL, options, trace, content, sourceType, downloadID, psRet>>
    /\ UNCHANGED <<regVars, unitVars, storeVars, importVars, chunkVars>>

----------------------------------------------------------------------------
(* WPJSONImporter.Import                                                    *)

(* ValidateSource and getPostIDs, then one goroutine per post id.  A page
   answered with a status other than 200 and 400 ends getPostIDs with
   (nil, nil): no post and no error. *)
WPEnumerate ==
    /\ enginePc = "wp.enum"
    /\ \/ /\ importResult' = NilResult
          /\ importErr' = IF WPValidateSource(sourceURL) # Nil
                          THEN WPValidateSource(sourceURL) ELSE ErrFetch
          /\ enginePc' = "imported"
          /\ UNCHANGED <<items, postPc, fetchLog>>
       \/ /\ WPValidateSource(sourceURL) = Nil
          /\ \E n \in 0..MaxItems :
                /\ items' = n
                /\ postPc' = [i \in 1..n |-> "go"]
                /\ fetchLog' = [i \in 1..n |-> <<>>]
          /\ enginePc' = "wp.collect"
          /\ UNCHANGED <<importResult, importErr>>
    /\ UNCHANGED <<sourceURL, options, trace, content, sourceType, downloadID, psRet>>
    /\ UNCHANGED <<fileIdx, lastResult, errorsList, semaphore, results, collected, recvLog>>
    /\ UNCHANGED <<regVars, unitVars, storeVars, chunkVars>>

(* A goroutine that starts its fetch without waiting for a semaphore slot. *)
WPAcquireNoLimit(i) ==
    /\ i \in DOMAIN postPc
    /\ postPc[i] = "go"
    /\ semaphore' = semaphore + 1
    /\ postPc' = [postPc EXCEPT ![i] = "import"]
    /\ UNCHANGED <<items, fileIdx, lastResult, errorsList, results, collected, recvLog, fetchLog>>
    /\ UNCHANGED <<regVars, unitVars, storeVars, engineVars, chunkVars>>

(* "semaphore <- struct{}{}": blocks while w.concurrency slots are taken.
   cmd/import.go sets w.concurrency to the --concurrency option. *)
WPAcquire(i) ==
    /\ i \in DOMAIN postPc
    /\ postPc[i] = "go"
    /\ semaphore < options.Concurrency
    /\ semaphore' = semaphore + 1
    /\ postPc' = [postPc EXCEPT ![i] = "import"]
    /\ UNCHANGED <<items, fileIdx, lastResult, errorsList, results, collected, recvLog, fetchLog>>
    /\ UNCHANGED <<regVars, unitVars, storeVars, engineVars, chunkVars>>

(* importPost up to createSource: an error of client.Do or of the decoder,
   and ErrUnexpectedPostStatusCode on a status other than 200. *)
FetchPost(resp) ==
    IF resp.reqErr \/ resp.status # httpOKStatus THEN [content |-> "", err |-> ErrFetch]
    ELSE [content |-> "post", err |-> Nil]

(* "result := w.importPost(...); results <- result" and the deferred
   "<-semaphore": the results channel is buffered to len(postIDs), so the
   send never blocks and the goroutine runs to its end.  The Source row takes
   the host of the endpoint. *)
WPImportPost(i) ==
    /\ i \in DOMAIN postPc
    /\ postPc[i] = "import"
    /\ \E resp \in ItemResponses, o \in ItemOutcomes :
          /\ o = "fetchErr" <=> FetchPost(resp).err # Nil
          /\ ItemWrites(i, o, sourceURL.host, FALSE)
          /\ results' = Append(results, [item |-> i, result |-> ItemResult(i, o)])
          /\ fetchLog' = [fetchLog EXCEPT ![i] =
                             Append(@, Fetched(resp, FetchPost(resp).content))]
    /\ semaphore' = semaphore - 1
    /\ postPc' = [postPc EXCEPT ![i] = "exit"]
    /\ UNCHANGED <<items, fileIdx, lastResult, errorsList, collected, recvLog>>
    /\ UNCHANGED <<regVars, unitVars, engineVars, chunkVars>>

(* The goroutine "go func(id int) { ... }(postID)" *)
PostStep(i) ==
    \/ WPAcquire(i)
    \/ WPImportPost(i)

(* "result := <-results" for i < len(postIDs) *)
WPCollect ==
    /\ enginePc = "wp.collect"
    /\ collected < items
    /\ results # <<>>
    /\ Record(Head(results).item, Head(results).result)
    /\ results' = Tail(results)
    /\ collected' = collected + 1
    /\ UNCHANGED <<items, fileIdx, postPc, semaphore, fetchLog>>
    /\ UNCHANGED <<regVars, unitVars, storeVars, engineVars, chunkVars>>

(* The statements of WPJSONImporter.Import after the collection loop. *)
WPImportReturn(last, errs) ==
    IF Len(errs) > 0
    THEN IF ~last.nil
         THEN [result |-> [last EXCEPT !.Error = ErrWPImportCompleted], err |-> Nil]
         ELSE [result |-> NilResult, err |-> ErrAllImportsFailed]
    ELSE IF ~last.nil
         THEN [result |-> last, err |-> Nil]
         ELSE [result |-> NilResult, err |-> ErrNoPostsImported]

WPReturn ==
    /\ enginePc = "wp.collect"
    /\ collected = items
    /\ importResult' = WPImportReturn(lastResult, errorsList).result
    /\ importErr' = WPImportReturn(lastResult, errorsList).err
    /\ enginePc' = "imported"
    /\ UNCHANGED <<sourceURL, options, trace, content, sourceType, downloadID, psRet>>
    /\ UNCHANGED <<regVars, unitVars, storeVars, importVars, chunkVars>>

----------------------------------------------------------------------------
(* ProcessSource after Import; ProcessDocument                              *)

(* "if err != nil { return err }; return e.ProcessDocument(ctx,
   importResult.DownloadID, ...)": reading DownloadID through a nil
   importResult is a nil pointer dereference, a run-time panic.  The locals of
   Import are gone once it has returned. *)
PSAfterImport ==
    /\ enginePc = "imported"
    /\ IF importErr # Nil
       THEN psRet' = importErr /\ enginePc' = "done" /\ UNCHANGED downloadID
       ELSE IF importResult.nil
       THEN psRet' = "panic" /\ enginePc' = "done" /\ UNCHANGED downloadID
       ELSE /\ downloadID' = importResult.DownloadID
            /\ enginePc' = "pd"
            /\ UNCHANGED psRet
    /\ fileIdx' = 1 /\ lastResult' = NilResult /\ errorsList' = <<>>
    /\ collected' = 0 /\ recvLog' = <<>> /\ fetchLog' = <<>>
    /\ items' = IF sourceType = "github" THEN 0 ELSE items
    /\ UNCHANGED <<postPc, semaphore, results>>
    /\ UNCHANGED <<sourceURL, options, trace, content, sourceType, importResult, importErr>>
    /\ UNCHANGED <<regVars, unitVars, storeVars, chunkVars>>

(* ProcessDocument: getDownload, getSource, determineSourceTypeFromSource and
   the lookup in e.transformers. *)
PDLoad ==
    /\ enginePc = "pd"
    /\ \E o \in DBOutcomes :
          LET dl == {d \in downloads : d.id = downloadID}
              src == {s \in sources : \E d \in dl : s.id = d.source_id}
          IN IF o = "err" \/ dl = {} \/ src = {}
             THEN /\ psRet' = ErrStore /\ enginePc' = "done"
                  /\ UNCHANGED <<sourceType, trace>>
             ELSE LET t == DetermineSourceTypeFromSource(CHOOSE s \in src : TRUE)
                  IN IF t.err # Nil
                     THEN /\ psRet' = t.err /\ enginePc' = "done"
                          /\ trace' = <<"load">>
                          /\ UNCHANGED sourceType
                     ELSE /\ sourceType' = t.type
                          /\ trace' = <<"load", "transformer lookup">>
                          /\ IF transformers[t.type] = NoAdapter
                             THEN psRet' = ErrNoTransformerRegistered /\ enginePc' = "done"
                             ELSE enginePc' = "transform" /\ UNCHANGED psRet
    /\ UNCHANGED <<sourceURL, options, content, importResult, importErr, downloadID>>
    /\ UNCHANGED <<regVars, unitVars, storeVars, importVars, chunkVars>>

(* Token counts of the transformed content: empty, one token, the longest. *)
ContentLengths == {0, 1, MaxContent}

ErrTransformInput == "transform: cannot read source or content"
(* The store's answer to an insert that a CHECK clause rejects. *)
ErrCheckConstraint == "CHECK constraint failed: format"

(* Document.Format: the GitHub transformer's createDocument writes "json"
   (or "yaml"), the WP-JSON transformer's extractDocument writes "md". *)
DocumentFormat(type) == IF type = "github" THEN "json" ELSE "md"

(* Keys of the metadata map extractMetadata builds: file_path and file_name
   for a GitHub file, links_count and canonical_url for a WP-JSON post. *)
MetadataKeys(type) ==
    IF type = "github" THEN {"file_path", "file_name"} ELSE {"links_count", "canonical_url"}

(* A saveDocument whose insert is undone when saveMetadata fails. *)
SaveDocumentWithMetadata(docs, row, o) ==
    IF o = "ok" /\ FormatCheckOk(row.format) THEN docs \cup {row} ELSE docs

(* saveDocument: one INSERT INTO documents on the *sql.DB, reached when the
   transformer accepted the download and read its input; it stays whatever
   saveMetadata does afterwards. *)
SaveDocument(docs, row, o) ==
    IF o \in {"metaErr", "ok"} /\ FormatCheckOk(row.format) THEN docs \cup {row} ELSE docs

(* saveMetadata: one upsert per key in the order of Go's map iteration,
   returning at the first failing statement.  The key sets that can be in
   the store afterwards: all keys on success, any set that misses at least
   one key on failure. *)
SaveMetadata(keys, o) ==
    IF o = "ok" THEN {keys}
    ELSE IF o = "metaErr" THEN {w \in SUBSET keys : w # keys}
    ELSE {{}}

(* Transformer.Transform for the selected transformer: CanTransform, reading
   the source or the content, saveDocument, saveMetadata.  The GitHub
   transformer accepts a download whose headers carry X-GitHub-SHA; whether
   the WP-JSON transformer accepts depends on the fields of the body.  A
   failed saveMetadata leaves the Document row behind. *)
PDTransform ==
    /\ enginePc = "transform"
    /\ \E o \in {"cannot", "inputErr", "docErr", "metaErr", "ok"}, T \in ContentLengths :
          LET dl == CHOOSE d \in downloads : d.id = downloadID
              format == DocumentFormat(sourceType)
              row == DocRow(NewDocumentID, dl.source_id, dl.id, format)
              inserted == o \in {"metaErr", "ok"} /\ FormatCheckOk(format)
          IN /\ sourceType = "github" => (o = "cannot" <=> ~dl.hasGitHubSHA)
             /\ o # "ok" => T = 0
             /\ o \in DBOutcomes \cup {"cannot", "inputErr", "docErr", "metaErr"}
             /\ documents' = SaveDocument(documents, row, o)
             /\ \E written \in SaveMetadata(MetadataKeys(sourceType), o) :
                   documentMeta' = IF inserted
                                   THEN documentMeta \cup {[document_id |-> row.id, key |-> k] : k \in written}
                                   ELSE documentMeta
             /\ trace' = Append(trace, "Transform")
             /\ IF o = "ok" /\ inserted
                THEN /\ content' = TokensOf(T)
                     /\ documentID' = row.id
                     /\ enginePc' = "chunk"
                     /\ UNCHANGED psRet
                ELSE /\ psRet' = CASE o = "cannot" /\ sourceType = "github" -> ErrCannotTransformDownload
                                   [] o = "cannot" /\ sourceType # "github" -> ErrCannotTransformWPDownload
                                   [] o = "inputErr" -> ErrTransformInput
                                   [] o \in {"metaErr", "ok"} /\ ~inserted -> ErrCheckConstraint
                                   [] OTHER -> ErrStore
                     /\ enginePc' = "done"
                     /\ UNCHANGED <<content, documentID>>
    /\ UNCHANGED <<sourceURL, options, sourceType, importResult, importErr, downloadID>>
    /\ UNCHANGED <<sources, downloads, chunksTbl, embeddingsTbl, fkEnforced, nextId>>
    /\ UNCHANGED <<chunks, concurrency, embDim, chunkChan, chunkChanClosed, resultChan, pcPC,
                   spawned, sent, nRead, chunkErrors, pcRet, wPc, wCur, wEmb, wErr, wTx, hist,
                   cancelled>>
    /\ UNCHANGED <<regVars, unitVars, importVars>>

(* ProcessDocument: the lookups in e.chunkers and e.embedders, ChunkDocument,
   and the call of processChunks with options.Concurrency and the embedder
   found, whose GetDimension() is a supported dimension or not. *)
(* Lookups in the other order: the embedder before the chunker. *)
PDLookupsEmbedderFirst ==
    IF embedders[options.EmbeddingModel] = NoAdapter
    THEN [err |-> ErrNoEmbedderRegistered, stages |-> <<"embedder lookup">>]
    ELSE IF chunkers[options.ChunkStrategy] = NoAdapter
    THEN [err |-> ErrNoChunkerRegistered, stages |-> <<"embedder lookup", "chunker lookup">>]
    ELSE [err |-> Nil, stages |-> <<"embedder lookup", "chunker lookup">>]

(* The lookups "e.chunkers[options.ChunkStrategy]" and then
   "e.embedders[options.EmbeddingModel]", each returning at once when the
   adapter is missing. *)
PDLookups ==
    IF chunkers[options.ChunkStrategy] = NoAdapter
    THEN [err |-> ErrNoChunkerRegistered, stages |-> <<"chunker lookup">>]
    ELSE IF embedders[options.EmbeddingModel] = NoAdapter
    THEN [err |-> ErrNoEmbedderRegistered, stages |-> <<"chunker lookup", "embedder lookup">>]
    ELSE [err |-> Nil, stages |-> <<"chunker lookup", "embedder lookup">>]

PDChunk ==
    /\ enginePc = "chunk"
    /\ LET r == ChunkDocument(content, options.MaxTokens, ChunkerBase)
           err == IF PDLookups.err # Nil THEN PDLookups.err ELSE r.err
       IN /\ trace' = trace \o PDLookups.stages \o
                         (IF PDLookups.err # Nil THEN <<>>
                          ELSE IF r.err # Nil THEN <<"ChunkDocument">>
                          ELSE <<"ChunkDocument", "processChunks">>)
          /\ IF err # Nil
             THEN /\ psRet' = err
                  /\ enginePc' = "done"
                  /\ UNCHANGED <<chunks, concurrency, embDim, pcPC, hist, nextId>>
             ELSE /\ chunks' = r.chunks
                  /\ embDim' \in {embeddingDim1536, 999}
                  /\ concurrency' = options.Concurrency
                  /\ hist' = [i \in 1..Len(r.chunks) |-> NoHist]
                  /\ nextId' = ChunkerBase + Len(r.chunks)
                  /\ pcPC' = "run"
                  /\ enginePc' = "chunks"
                  /\ UNCHANGED psRet
    /\ UNCHANGED <<sourceURL, options, content, sourceType, importResult, importErr, downloadID>>
    /\ UNCHANGED <<sources, downloads, documents, documentMeta, chunksTbl, embeddingsTbl, fkEnforced>>
    /\ UNCHANGED <<documentID, chunkChan, chunkChanClosed, resultChan,
                   spawned, sent, nRead, chunkErrors, pcRet, wPc, wCur, wEmb, wErr, wTx, cancelled>>
    /\ UNCHANGED <<regVars, unitVars, importVars>>

(* "return e.processChunks(...)" and ProcessSource's "return e.ProcessDocument(...)" *)
PDReturn ==
    /\ enginePc = "chunks"
    /\ pcPC = "done"
    /\ psRet' = pcRet
    /\ enginePc' = "done"
    /\ UNCHANGED <<sourceURL, options, trace, content, sourceType, importResult, importErr, downloadID>>
    /\ UNCHANGED <<regVars, unitVars, storeVars, importVars, chunkVars>>

(* A call ProcessSource(ctx, sourceURL, options, db) on an empty store, with
   the adapters of cmd/import.go registered, except those of one of the
   MissingSets. *)
Init ==
    /\ \E missing \in MissingSets :
          /\ importers = RegistryWith("importer", missing)
          /\ transformers = RegistryWith("transformer", missing)
          /\ chunkers = RegistryWith("chunker", missing)
          /\ embedders = RegistryWith("embedder", missing)
    /\ updaters = EmptyRegistry
    /\ RegIdle
    /\ StoreEmpty /\ fkEnforced \in BOOLEAN /\ nextId = ChunkerBase
    /\ sourceURL \in URLs
    /\ options \in [ChunkStrategy : {"token"}, EmbeddingModel : {"model"},
                    MaxTokens : {2}, Concurrency : 0..MaxConcurrency]
    /\ content = <<>>
    /\ enginePc = "start"
    /\ sourceType = ""
    /\ importResult = NilResult /\ importErr = Nil
    /\ downloadID = NoId
    /\ psRet = "pending"
    /\ trace = <<>>
    /\ ImportIdle
    /\ ChunksIdle
    /\ UnitIdle

Next ==
    \/ PSBegin
    \/ GHEnumerate
    \/ GHImportFile
    \/ GHReturn
    \/ WPEnumerate
    \/ \E i \in 1..MaxItems : PostStep(i)
    \/ WPCollect
    \/ WPReturn
    \/ PSAfterImport
    \/ PDLoad
    \/ PDTransform
    \/ PDChunk
    \/ ChunksProgress
    \/ PDReturn

Spec == Init /\ [][Next]_vars

----------------------------------------------------------------------------
(* Properties of ProcessSource                                              *)

(* ProcessSource has read what Import returned. *)
AfterImport == enginePc \in {"pd", "transform", "chunk", "chunks", "done"}

(* Import ended before its item loop: validation or enumeration failed. *)
EnumerationFailed ==
    importErr \in {ErrFetch, ErrNotGitHubURL, ErrInvalidGitHubURLFormat, ErrNotWordPressAPI}

Succeeded == {k \in DOMAIN recvLog : recvLog[k].result.Error = Nil}
Failed == {k \in DOMAIN recvLog : recvLog[k].result.Error # Nil}

(* C7: a nil import result makes ProcessSource return an error: no panic,
   no nil dereference, no call of ProcessDocument; a non-nil result with a
   nil error makes it call ProcessDocument with the result's DownloadID. *)
C7_NilResultIsAnError ==
    /\ psRet # "panic"
    /\ (AfterImport /\ importResult.nil) =>
          /\ enginePc = "done"
          /\ psRet \notin {Nil, "pending"}
          /\ downloadID = NoId
    /\ (AfterImport /\ ~importResult.nil /\ importErr = Nil) =>
          downloadID = importResult.DownloadID

(* Import hands ProcessSource a nil result together with a nil error. *)
C7_Witness ==
    /\ enginePc = "imported"
    /\ importResult.nil
    /\ importErr = Nil

(* C8: an Import that ends without a successfully imported item, no item
   enumerated or every item failed, returns a nil result and
   ErrNoFilesImported (GitHub) or ErrNoPostsImported (WP-JSON). *)
C8_NoSuccessIsNoItemsImported ==
    (enginePc = "imported" /\ ~EnumerationFailed /\ Succeeded = {}) =>
       /\ importResult.nil
       /\ importErr = IF sourceType = "github" THEN ErrNoFilesImported ELSE ErrNoPostsImported

(* Every attempted item of an import failed. *)
C8_Witness ==
    /\ enginePc = "imported"
    /\ ~EnumerationFailed
    /\ Succeeded = {} /\ Failed # {}

LastSucceeded == recvLog[CHOOSE k \in Succeeded : \A l \in Succeeded : l <= k].result

(* C9: when some items of an import succeed and some fail, Import returns a
   nil error and the ids of the last successful item, both rows of which are
   in the store, with Error set to the importer's ImportCompleted marker;
   ProcessSource then runs ProcessDocument on that download, and every
   Document written belongs to it. *)
C9_PartialSuccessReturnsLast ==
    /\ (enginePc = "imported" /\ Succeeded # {} /\ Failed # {}) =>
          /\ importErr = Nil
          /\ ~importResult.nil
          /\ importResult.SourceID = LastSucceeded.SourceID
          /\ importResult.DownloadID = LastSucceeded.DownloadID
          /\ importResult.Error =
                IF sourceType = "github" THEN ErrImportCompleted ELSE ErrWPImportCompleted
          /\ \E s \in sources : s.id = importResult.SourceID
          /\ \E d \in downloads :
                d.id = importResult.DownloadID /\ d.source_id = importResult.SourceID
          /\ \A k \in Failed :
                /\ importResult.SourceID # SourceIdOf(recvLog[k].item)
                /\ importResult.DownloadID # DownloadIdOf(recvLog[k].item)
    /\ (AfterImport /\ importResult.Error \in {ErrImportCompleted, ErrWPImportCompleted}) =>
          /\ downloadID = importResult.DownloadID
          /\ \A d \in documents : d.download_id = importResult.DownloadID

(* Two items succeeded and a later one failed; the second success is returned. *)
C9_Witness ==
    /\ enginePc = "imported"
    /\ Cardinality(Succeeded) >= 2
    /\ \E k \in Failed : \E l \in Succeeded : l < k
    /\ importResult.DownloadID = LastSucceeded.DownloadID

StoredChunksOf(doc) == {c \in chunksTbl : c.document_id = doc.id}
StoredEmbeddingsOf(c) ==
    {e \in embeddingsTbl : e.object_id = c.id /\ e.object_type = "chunk"}

Successful == enginePc = "done" /\ psRet = Nil

(* C10 as stated: after a successful ProcessSource the store holds exactly
   one Source row, one Download row, one Document row, at least one Chunk row
   and one Embedding row per Chunk with a body. *)
C10_OneRowOfEach ==
    Successful =>
       /\ Cardinality(sources) = 1
       /\ Cardinality(downloads) = 1
       /\ Cardinality(documents) = 1
       /\ Cardinality(chunksTbl) >= 1
       /\ \A c \in chunksTbl : c.body.valid => Cardinality(StoredEmbeddingsOf(c)) = 1

(* C10 amended: after a successful ProcessSource the store holds exactly one
   Document row; it belongs to the Source and Download rows whose ids Import
   returned, each present exactly once; every chunk of the document, at
   least one, is stored under it with exactly one Embedding row, and there
   are no other Chunk or Embedding rows.  The other items of the import leave
   their own Source and Download rows. *)
C10_RoundTripOfReturnedPair ==
    Successful =>
       /\ ~importResult.nil
       /\ Cardinality({s \in sources : s.id = importResult.SourceID}) = 1
       /\ Cardinality({d \in downloads : d.id = importResult.DownloadID
                                         /\ d.source_id = importResult.SourceID}) = 1
       /\ \E doc \in documents :
             /\ documents = {doc}
             /\ doc.source_id = importResult.SourceID
             /\ doc.download_id = importResult.DownloadID
             /\ StoredChunksOf(doc) = chunksTbl
       /\ Cardinality(chunksTbl) = Len(chunks)
       /\ Cardinality(chunksTbl) >= 1
       /\ \A c \in chunksTbl : c.body.valid /\ Cardinality(StoredEmbeddingsOf(c)) = 1
       /\ Cardinality(embeddingsTbl) = Cardinality(chunksTbl)
       /\ Cardinality(downloads) <= Cardinality(sources)

(* A successful run over an import of several items and a document of
   several chunks. *)
C10_Witness ==
    /\ Successful
    /\ Cardinality(downloads) >= 2
    /\ Cardinality(sources) > Cardinality(downloads)
    /\ Cardinality(chunksTbl) >= 2

----------------------------------------------------------------------------
(* Source-type resolution                                                   *)

InImport == enginePc \in {"gh.enum", "gh.files", "wp.enum", "wp.collect", "imported"}

Accepting == {t \in Registered(importers) : ValidateSource(t, sourceURL) = Nil}

(* C15: the source type determineSourceType returns is that of a registered
   importer whose ValidateSource accepts the URL, and that importer's Import
   is the one called; if no registered importer accepts the URL, ProcessSource
   returns ErrNoImporterCanHandle, and only then, without an Import call and
   with the store as it was. *)
C15_ResolvesToAcceptingImporter ==
    /\ InImport =>
          /\ sourceType \in Accepting
          /\ enginePc \in {"gh.enum", "gh.files"} => sourceType = "github"
          /\ enginePc \in {"wp.enum", "wp.collect"} => sourceType = "wp-json"
    /\ Accepting = {} =>
          /\ enginePc \in {"start", "done"}
          /\ enginePc = "done" => psRet = ErrNoImporterCanHandle
          /\ sourceType = ""
          /\ importResult = NilResult /\ importErr = Nil /\ ImportIdle
          /\ StoreEmpty
    /\ psRet = ErrNoImporterCanHandle => Accepting = {}

(* ProcessSource returned for a repository URL with no importer registered. *)
C15_Witness ==
    /\ enginePc = "done"
    /\ psRet = ErrNoImporterCanHandle
    /\ Registered(importers) = {}
    /\ GitHubValidateSource(sourceURL) = Nil

(* C16: no URL is accepted by the ValidateSource of both shipped importers,
   so with both registered the source type determineSourceType returned is
   the only one it can return for the URL, whatever order the registry is
   visited in. *)
C16_ValidatorsDisjoint ==
    /\ ~(GitHubValidateSource(sourceURL) = Nil /\ WPValidateSource(sourceURL) = Nil)
    /\ Registered(importers) = {"github", "wp-json"} =>
          /\ Cardinality(DetermineSourceType(sourceURL)) <= 1
          /\ InImport => \A t \in DetermineSourceType(sourceURL) : t = sourceType

(* With both importers registered, a URL on github.com whose path has
   /wp-json/ was routed to the WP-JSON importer although the GitHub importer
   accepts it, and on to the GitHub importer in another run. *)
C16_Witness ==
    /\ Registered(importers) = {"github", "wp-json"}
    /\ GitHubValidateSource(sourceURL) = Nil /\ WPValidateSource(sourceURL) = Nil
    /\ enginePc = "wp.collect"
    /\ sourceType = "wp-json"

----------------------------------------------------------------------------
(* ProcessDocument on a stored download (cmd/transform.go)                  *)

(* Hosts of the stored Source: NULL, empty, the two GitHub hosts, another. *)
DocHosts == {NullHost, "", "github.com", "api.github.com", "blog.example.com"}

(* raw_url of the stored Source: NULL, a repository URL, a WordPress endpoint. *)
DocRawURLs ==
    {NoURL,
     [host |-> "github.com", parts |-> 2, wpjson |-> FALSE],
     [host |-> "blog.example.com", parts |-> 4, wpjson |-> TRUE]}

(* The adapters a transform run is started without. *)
DocMissingSets ==
    {{}} \cup
    {{a} : a \in {<<"transformer", "github">>, <<"transformer", "wp-json">>,
                  <<"chunker", "token">>, <<"embedder", "model">>}} \cup
    {{<<"chunker", "token">>, <<"embedder", "model">>}}

(* A call ProcessDocument(ctx, downloadID, options, db): the store holds one
   Source and one Download of it, no importer is registered. *)
InitDoc ==
    /\ importers = EmptyRegistry
    /\ \E missing \in DocMissingSets :
          /\ transformers = RegistryWith("transformer", missing)
          /\ chunkers = RegistryWith("chunker", missing)
          /\ embedders = RegistryWith("embedder", missing)
    /\ updaters = EmptyRegistry
    /\ RegIdle
    /\ \E raw \in DocRawURLs, host \in DocHosts :
          sources = {SourceRow(SourceIdOf(1), raw, host, "json")}
    /\ \E sha \in BOOLEAN :
          downloads = {DownloadRow(DownloadIdOf(1), SourceIdOf(1), ImportTime, httpOKStatus, sha)}
    /\ documents = {} /\ documentMeta = {} /\ chunksTbl = {} /\ embeddingsTbl = {}
    /\ fkEnforced = FALSE
    /\ nextId = ChunkerBase
    /\ sourceURL = NoURL
    /\ options \in [ChunkStrategy : {"token"}, EmbeddingModel : {"model"},
                    MaxTokens : {2}, Concurrency : 1..MaxConcurrency]
    /\ content = <<>>
    /\ enginePc = "pd"
    /\ sourceType = ""
    /\ importResult = NilResult /\ importErr = Nil
    /\ downloadID = DownloadIdOf(1)
    /\ psRet = "pending"
    /\ trace = <<>>
    /\ ImportIdle
    /\ ChunksIdle
    /\ UnitIdle

NextDoc ==
    \/ PDLoad
    \/ PDTransform
    \/ PDChunk
    \/ ChunksProgress
    \/ PDReturn

SpecDoc == InitDoc /\ [][NextDoc]_vars

(* The Source row of the download ProcessDocument was called with. *)
SourceOfDownload ==
    CHOOSE s \in sources : \E d \in downloads : d.id = downloadID /\ d.source_id = s.id

(* C17: once ProcessDocument has loaded the download and its Source, the
   source type is a function of the Source's host alone: "github" for
   github.com and api.github.com, "wp-json" for any other present host,
   whatever the raw URL and the options are; with the host absent it returns
   ErrCannotDetermineSourceType, and only then, before any transformer is
   looked up or run and before anything is written. *)
C17_TypeFromStoredHost ==
    LET host == SourceOfDownload.host
    IN /\ Len(trace) >= 2 =>
             /\ host # NullHost
             /\ sourceType = IF host \in {"github.com", "api.github.com"}
                             THEN "github" ELSE "wp-json"
       /\ (host = NullHost /\ trace # <<>>) =>
             /\ trace = <<"load">>
             /\ enginePc = "done"
             /\ psRet = ErrCannotDetermineSourceType
             /\ sourceType = ""
             /\ documents = {} /\ chunksTbl = {} /\ embeddingsTbl = {}
       /\ psRet = ErrCannotDetermineSourceType => host = NullHost
       /\ (host # NullHost /\ trace # <<>>) => Len(trace) >= 2

(* The Source has no host but a GitHub raw URL, and ProcessDocument failed. *)
C17_Witness ==
    /\ enginePc = "done"
    /\ psRet = ErrCannotDetermineSourceType
    /\ SourceOfDownload.host = NullHost
    /\ SourceOfDownload.raw_url.host = "github.com"

StageOrder ==
    <<"load", "transformer lookup", "Transform", "chunker lookup", "embedder lookup",
      "ChunkDocument", "processChunks">>

MissingAdapterErrors ==
    {ErrNoTransformerRegistered, ErrNoChunkerRegistered, ErrNoEmbedderRegistered}

(* C18: ProcessDocument enters its stages in the order transformer lookup,
   Transform, chunker lookup, embedder lookup, ChunkDocument, processChunks.
   It returns ErrNoTransformerRegistered, ErrNoChunkerRegistered or
   ErrNoEmbedderRegistered exactly when the lookup it has just made found no
   adapter, the chunker being looked up before the embedder; in these cases
   ChunkDocument and the embedder were never called and no Chunk or Embedding
   row exists. *)
C18_StagesInOrder ==
    /\ Len(trace) <= Len(StageOrder)
    /\ trace = SubSeq(StageOrder, 1, Len(trace))
    /\ enginePc = "done" =>
          /\ psRet = ErrNoTransformerRegistered <=>
                /\ Len(trace) = 2
                /\ transformers[sourceType] = NoAdapter
          /\ psRet = ErrNoChunkerRegistered <=>
                /\ Len(trace) = 4
                /\ chunkers[options.ChunkStrategy] = NoAdapter
          /\ psRet = ErrNoEmbedderRegistered <=>
                /\ Len(trace) = 5
                /\ embedders[options.EmbeddingModel] = NoAdapter
    /\ psRet \in MissingAdapterErrors =>
          /\ enginePc = "done"
          /\ Len(trace) <= 5
          /\ pcPC = "idle" /\ chunks = <<>> /\ hist = <<>>
          /\ \A w \in Workers : wPc[w] = "unborn"
          /\ chunksTbl = {} /\ embeddingsTbl = {}
    /\ Len(trace) < Len(StageOrder) => pcPC = "idle" /\ chunksTbl = {} /\ embeddingsTbl = {}

(* Chunker and embedder are both missing: the transformer ran, and the
   chunker lookup failed first. *)
C18_Witness ==
    /\ enginePc = "done"
    /\ psRet = ErrNoChunkerRegistered
    /\ embedders[options.EmbeddingModel] = NoAdapter
    /\ trace = SubSeq(StageOrder, 1, 4)
    /\ documents # {}

----------------------------------------------------------------------------
(* WPJSONImporter.getPostIDs                                                *)

StatusBadRequest == 400
StatusOther == 500

(* The posts of a listing page: n posts numbered on from the posts served on
   earlier pages; the post at noIdAt (if any) has no numeric "id". *)
PageBody(served, n, noIdAt) ==
    [k \in 1..n |-> IF k = noIdAt THEN NoId ELSE served + k]

(* What the provider can answer to a listing request: the request fails, a
   status without a readable body, or status 200 with a body that does not
   decode or with a list of 0..MaxPerPage posts. *)
PageResponses(served) ==
    {[reqErr |-> TRUE, status |-> 0, decodes |-> FALSE, posts |-> <<>>]} \cup
    {[reqErr |-> FALSE, status |-> st, decodes |-> FALSE, posts |-> <<>>] :
        st \in {httpOKStatus, StatusBadRequest, StatusOther}} \cup
    {[reqErr |-> FALSE, status |-> httpOKStatus, decodes |-> TRUE,
      posts |-> PageBody(served, n, noIdAt)] : n \in 0..MaxPerPage, noIdAt \in 0..MaxPerPage}

(* "if id, ok := post["id"].(float64); ok { append }" over the posts of a page *)
IdsOf(posts) == SelectSeq(posts, LAMBDA id : id # NoId)

(* A listing that ends only on status 400, not on an empty list. *)
EndsListingOn400Only(resp) == resp.status = StatusBadRequest

(* The two "break"s of the loop: status 400, or a decoded list without posts. *)
EndsListing(resp) ==
    \/ resp.status = StatusBadRequest
    \/ resp.status = httpOKStatus /\ resp.decodes /\ resp.posts = <<>>

RECURSIVE PostsServed(_)
PostsServed(log) ==
    IF log = <<>> THEN 0 ELSE Len(log[Len(log)].resp.posts) + PostsServed(SubSeq(log, 1, Len(log) - 1))

(* One iteration of "for page <= w.maxPages": the request for the page and
   what the loop does with the answer.  For a status other than 200 and 400
   it executes "return nil, err" with the err of client.Do, which is nil. *)
GPRequestPage ==
    /\ ~gpRet.done
    /\ page <= maxPages
    /\ \E resp \in PageResponses(PostsServed(pageLog)) :
          /\ pageLog' = Append(pageLog, [page |-> page, resp |-> resp])
          /\ IF resp.reqErr
             THEN /\ gpRet' = [done |-> TRUE, nilIds |-> TRUE, ids |-> <<>>, err |-> ErrFetch]
                  /\ UNCHANGED <<page, allPostIDs>>
             ELSE IF resp.status = StatusBadRequest /\ EndsListing(resp)
             THEN /\ gpRet' = [done |-> TRUE, nilIds |-> allPostIDs = <<>>,
                               ids |-> allPostIDs, err |-> Nil]
                  /\ UNCHANGED <<page, allPostIDs>>
             ELSE IF resp.status # httpOKStatus
             THEN /\ gpRet' = [done |-> TRUE, nilIds |-> TRUE, ids |-> <<>>, err |-> Nil]
                  /\ UNCHANGED <<page, allPostIDs>>
             ELSE IF ~resp.decodes
             THEN /\ gpRet' = [done |-> TRUE, nilIds |-> TRUE, ids |-> <<>>, err |-> ErrFetch]
                  /\ UNCHANGED <<page, allPostIDs>>
             ELSE IF EndsListing(resp)
             THEN /\ gpRet' = [done |-> TRUE, nilIds |-> allPostIDs = <<>>,
                               ids |-> allPostIDs, err |-> Nil]
                  /\ UNCHANGED <<page, allPostIDs>>
             ELSE /\ allPostIDs' = allPostIDs \o IdsOf(resp.posts)
                  /\ page' = page + 1
                  /\ UNCHANGED gpRet
    /\ UNCHANGED <<chunkerVars, maxPages, dlLog, cliVars>>
    /\ UNCHANGED <<regVars, storeVars, engineVars, importVars, chunkVars>>

(* The loop condition fails: "return allPostIDs, nil" *)
GPLoopExit ==
    /\ ~gpRet.done
    /\ page > maxPages
    /\ gpRet' = [done |-> TRUE, nilIds |-> allPostIDs = <<>>, ids |-> allPostIDs, err |-> Nil]
    /\ UNCHANGED <<chunkerVars, maxPages, page, allPostIDs, pageLog, dlLog, cliVars>>
    /\ UNCHANGED <<regVars, storeVars, engineVars, importVars, chunkVars>>

(* A call getPostIDs(ctx, baseURL) of an importer with maxPages in 1..MaxPages. *)
InitPages ==
    /\ EngineAtRest
    /\ ChunkerIdle /\ DownloadsIdle /\ CliIdle
    /\ maxPages \in 1..MaxPages
    /\ page = 1
    /\ allPostIDs = <<>>
    /\ pageLog = <<>>
    /\ gpRet = NoIds

NextPages == GPRequestPage \/ GPLoopExit

SpecPages == InitPages /\ [][NextPages]_vars

----------------------------------------------------------------------------
(* Properties of getPostIDs                                                 *)

(* A page that answered 200 with a decoded, non-empty list. *)
FullPage(resp) ==
    ~resp.reqErr /\ resp.status = httpOKStatus /\ resp.decodes /\ resp.posts # <<>>

RECURSIVE IdsInPageOrder(_)
IdsInPageOrder(log) ==
    IF log = <<>> THEN <<>>
    ELSE IdsInPageOrder(SubSeq(log, 1, Len(log) - 1)) \o
         (IF FullPage(log[Len(log)].resp) THEN IdsOf(log[Len(log)].resp.posts) ELSE <<>>)

LastResponse == pageLog[Len(pageLog)].resp

(* The listing of the example: 3 posts, 1 post, then status 400. *)
ExampleListing ==
    /\ Len(pageLog) = 3
    /\ pageLog[1].resp.posts = <<1, 2, 3>>
    /\ pageLog[2].resp.posts = <<4>>
    /\ pageLog[3].resp.status = StatusBadRequest

(* C19: getPostIDs requests the listing pages 1, 2, ... one after the other
   in increasing order, never more than maxPages of them and none after a
   page that answered 400 or an empty list; the ids collected are those of
   the pages in page order, and they are what it returns when the listing
   ends on a 400, an empty list or the page limit.  Pages of 3 posts and 1
   post followed by a 400 give [1, 2, 3, 4]. *)
C19_PagesSerialInOrder ==
    /\ \A k \in DOMAIN pageLog : pageLog[k].page = k
    /\ Len(pageLog) <= maxPages
    /\ page = (IF gpRet.done /\ Len(pageLog) > 0 /\ ~FullPage(LastResponse)
               THEN Len(pageLog) ELSE Len(pageLog) + 1)
    /\ \A k \in DOMAIN pageLog : k < Len(pageLog) => FullPage(pageLog[k].resp)
    /\ allPostIDs = IdsInPageOrder(pageLog)
    /\ (gpRet.done /\ Len(pageLog) > 0 /\ EndsListing(LastResponse)) =>
          gpRet.err = Nil /\ gpRet.ids = allPostIDs
    /\ (gpRet.done /\ (pageLog = <<>> \/ FullPage(LastResponse))) =>
          /\ Len(pageLog) = maxPages
          /\ gpRet.err = Nil /\ gpRet.ids = allPostIDs
    /\ (gpRet.done /\ ExampleListing) => gpRet.ids = <<1, 2, 3, 4>>

C19_Witness ==
    /\ gpRet.done
    /\ ExampleListing
    /\ gpRet.ids = <<1, 2, 3, 4>>

(* C20: when a listing page answers with a status other than 200 and 400,
   getPostIDs returns a non-nil error and no id list, on whichever page. *)
C20_UnexpectedStatusFails ==
    (gpRet.done /\ Len(pageLog) > 0 /\ ~LastResponse.reqErr
       /\ LastResponse.status \notin {httpOKStatus, StatusBadRequest}) =>
          gpRet.err # Nil /\ gpRet.nilIds

(* The second listing page answered 500 after a first page of posts. *)
C20_Witness ==
    /\ gpRet.done
    /\ Len(pageLog) = 2
    /\ FullPage(pageLog[1].resp)
    /\ ~LastResponse.reqErr /\ LastResponse.status = StatusOther
    /\ gpRet.err = Nil /\ gpRet.nilIds

----------------------------------------------------------------------------
(* Importer.Import called directly                                          *)

(* A call Import(ctx, sourceURL, db) of one of the two shipped importers on
   an empty store; the WP-JSON importer's concurrency is options.Concurrency. *)
InitImport ==
    /\ importers = RegistryWith("importer", {})
    /\ transformers = RegistryWith("transformer", {})
    /\ chunkers = RegistryWith("chunker", {})
    /\ embedders = RegistryWith("embedder", {})
    /\ updaters = EmptyRegistry
    /\ RegIdle
    /\ StoreEmpty /\ fkEnforced = FALSE /\ nextId = ChunkerBase
    /\ sourceURL \in URLs
    /\ options \in [ChunkStrategy : {"token"}, EmbeddingModel : {"model"},
                    MaxTokens : {2}, Concurrency : 0..MaxConcurrency]
    /\ content = <<>>
    /\ sourceType \in {"github", "wp-json"}
    /\ enginePc = IF sourceType = "github" THEN "gh.enum" ELSE "wp.enum"
    /\ importResult = NilResult /\ importErr = Nil
    /\ downloadID = NoId
    /\ psRet = "pending"
    /\ trace = <<>>
    /\ ImportIdle
    /\ ChunksIdle
    /\ UnitIdle

NextImport ==
    \/ GHEnumerate
    \/ GHImportFile
    \/ GHReturn
    \/ WPEnumerate
    \/ \E i \in 1..MaxItems : PostStep(i)
    \/ WPCollect
    \/ WPReturn

SpecImport == InitImport /\ [][NextImport]_vars

(* The Go scheduler runs every runnable goroutine eventually. *)
FairSpecImport == SpecImport /\ WF_vars(NextImport)

(* The importPost calls in flight, and the items whose result was produced. *)
InFlight == {i \in DOMAIN postPc : postPc[i] = "import"}
Exited == {i \in DOMAIN postPc : postPc[i] = "exit"}

WPRunning == sourceType = "wp-json" /\ enginePc = "wp.collect" /\ options.Concurrency >= 1
WPReturned == sourceType = "wp-json" /\ enginePc = "imported" /\ ~EnumerationFailed

C21_Bounded ==
    (sourceType = "wp-json" /\ options.Concurrency >= 1) =>
       /\ Cardinality(InFlight) <= options.Concurrency
       /\ Cardinality(InFlight) = semaphore
       /\ \A i \in DOMAIN postPc :
             /\ Len(fetchLog[i]) <= 1
             /\ postPc[i] = "go" => fetchLog[i] = <<>>
             /\ postPc[i] = "exit" => Len(fetchLog[i]) = 1
       /\ Len(recvLog) = collected /\ collected <= items
       /\ Len(results) + collected = Cardinality(Exited)
       /\ \A k, l \in DOMAIN recvLog : k # l => recvLog[k].item # recvLog[l].item
       /\ WPReturned =>
             /\ collected = items
             /\ {recvLog[k].item : k \in DOMAIN recvLog} = 1..items
             /\ Exited = 1..items
             /\ results = <<>>

(* C21: with importer concurrency c >= 1 and n enumerated post ids, never
   more than c importPost calls are in flight, every id is fetched at most
   once and exactly once by the time its goroutine ends, Import returns only
   after reading exactly n results, one per id, in whatever order the items
   completed, and it does return. *)
C21_BoundedFetchOnceAndReturns ==
    /\ []C21_Bounded
    /\ WPRunning ~> WPReturned

(* Import returned after three posts were fetched two at a time and their
   results arrived in another order than the ids were enumerated in. *)
C21_Witness ==
    /\ WPReturned
    /\ items = MaxItems
    /\ options.Concurrency = MaxConcurrency
    /\ recvLog[1].item = MaxItems
    /\ \A i \in 1..items : Len(fetchLog[i]) = 1

----------------------------------------------------------------------------
(* The downloads table under inserts (init_schema.sql)                      *)

(* "INSERT INTO downloads (...)" for an existing Source, with any
   downloaded_at, followed by the trigger; a failed statement changes
   nothing.  Identifiers are fresh. *)
InsertDownload ==
    /\ nextId <= MaxInserts
    /\ \E src \in sources, at \in {NullTime} \cup 1..MaxTime, o \in {"ok", "err"} :
          LET row == DownloadRow(nextId, src.id, at, httpOKStatus, FALSE)
          IN IF o = "ok"
             THEN /\ downloads' \in MaintainLast3(downloads \cup {row}, src.id)
                  /\ dlLog' = dlLog \cup {row}
             ELSE UNCHANGED <<downloads, dlLog>>
    /\ nextId' = nextId + 1
    /\ UNCHANGED <<sources, documents, documentMeta, chunksTbl, embeddingsTbl, fkEnforced>>
    /\ UNCHANGED <<chunkerVars, pagesVars, cliVars>>
    /\ UNCHANGED <<regVars, engineVars, importVars, chunkVars>>

(* A store with two Sources and no Download. *)
InitDownloads ==
    /\ importers = EmptyRegistry
    /\ transformers = EmptyRegistry
    /\ chunkers = EmptyRegistry
    /\ embedders = EmptyRegistry
    /\ updaters = EmptyRegistry
    /\ RegIdle /\ EngineIdle /\ ImportIdle /\ ChunksIdle /\ UnitIdle
    /\ sources = {SourceRow(SourceIdOf(1), NoURL, "github.com", "json"),
                  SourceRow(SourceIdOf(2), NoURL, "blog.example.com", "json")}
    /\ downloads = {} /\ documents = {} /\ documentMeta = {}
    /\ chunksTbl = {} /\ embeddingsTbl = {}
    /\ fkEnforced = FALSE
    /\ nextId = 1

NextDownloads == InsertDownload

SpecDownloads == InitDownloads /\ [][NextDownloads]_vars

RetainedOf(sourceId) == {d \in downloads : d.source_id = sourceId}
InsertedOf(sourceId) == {d \in dlLog : d.source_id = sourceId}

C22_Retained ==
    \A src \in sources :
       LET R == RetainedOf(src.id)
           All == InsertedOf(src.id)
       IN /\ Cardinality(R) <= 3
          /\ R \subseteq All
          /\ Cardinality(All) <= 3 => R = All
          /\ Cardinality(All) >= 3 => Cardinality(R) = 3
          /\ \A k \in R, e \in All \ R :
                \/ e.downloaded_at = NullTime
                \/ k.downloaded_at # NullTime /\ e.downloaded_at <= k.downloaded_at

C22_OthersUntouched ==
    \A src \in sources :
       InsertedOf(src.id)' = InsertedOf(src.id) => RetainedOf(src.id)' = RetainedOf(src.id)

(* C22: after any sequence of Download inserts every Source has at most 3
   Download rows, namely three with the most recent downloaded_at of all the
   rows ever inserted for it (all of them while there are at most three): no
   evicted row has a later downloaded_at than a retained one, a row without
   downloaded_at counting as the oldest; and an insert for one Source leaves
   the rows of every other Source as they were. *)
C22_LastThreeRetained ==
    /\ []C22_Retained
    /\ [][C22_OthersUntouched]_vars

(* A Source holds three rows, the row inserted last for it had no
   downloaded_at and was evicted at once, and the other Source has a row. *)
C22_Witness ==
    \E a, b \in sources :
       /\ a # b
       /\ Cardinality(RetainedOf(a.id)) = 3
       /\ RetainedOf(b.id) # {}
       /\ \E e \in InsertedOf(a.id) \ RetainedOf(a.id) :
             /\ e.downloaded_at = NullTime
             /\ \A d \in dlLog : d.id <= e.id

----------------------------------------------------------------------------
(* Document rows written by Transform                                       *)

TransformRan == Len(trace) >= 3

(* Transform returned because the transformer rejected the download, could
   not read its input (body, dates, source), or a store statement failed. *)
TransformGaveUp ==
    psRet \in {ErrCannotTransformDownload, ErrCannotTransformWPDownload,
               ErrTransformInput, ErrStore}

(* C23: every Document row has a format in {json, yml, yaml}, and whenever
   a transformer, the WP-JSON one included, has accepted the download, read
   its input and met no failing store statement, its Document row passed the
   format constraint: exactly one Document row was added. *)
C23_DocumentFormatAccepted ==
    /\ \A d \in documents : d.format \in {"json", "yml", "yaml"}
    /\ (TransformRan /\ ~TransformGaveUp) => Cardinality(documents) = 1

(* The WP-JSON transformer accepted the download and its Document insert
   was rejected by the format constraint: ProcessDocument failed, no row. *)
C23_Witness ==
    /\ sourceType = "wp-json"
    /\ TransformRan
    /\ enginePc = "done"
    /\ psRet = ErrCheckConstraint
    /\ documents = {}

----------------------------------------------------------------------------
(* The tokenizer tag of a chunk                                             *)

(* C24: every chunk ChunkDocument returns carries as tokenizer tag the
   configured tokenizer name (CHUNKER_TOKENIZER, cl100k_base when unset),
   for a single chunk and for several, and the tag names the encoding the
   content was tokenized with. *)
C24_TokenizerTagIsConfiguredName ==
    (ckRet.done /\ ckArgs.fn = "ChunkDocument") =>
       \A k \in DOMAIN ckRet.chunks :
          /\ ckRet.chunks[k].Tokenizer = GetTokenizerFromEnv
          /\ ckRet.chunks[k].Tokenizer = Encoding

(* With CHUNKER_TOKENIZER=p50k_base a content was tokenized with p50k_base
   and split into several chunks, each tagged cl100k_base. *)
C24_Witness ==
    /\ ckRet.done /\ ckArgs.fn = "ChunkDocument"
    /\ tokenizerEnv = "p50k_base" /\ Encoding = "p50k_base"
    /\ Len(ckRet.chunks) >= 2
    /\ \A k \in DOMAIN ckRet.chunks : ckRet.chunks[k].Tokenizer = "cl100k_base"

----------------------------------------------------------------------------
(* Windows of ChunkDocumentWithOverlap                                      *)

OverlapCall == ckRet.done /\ ckArgs.fn = "ChunkDocumentWithOverlap"
OverlapInRange == 0 <= ckArgs.overlapTokens /\ ckArgs.overlapTokens < ckArgs.maxTokens

(* The token positions (from 1) of chunk k of the result. *)
WindowOf(k) == {ckRet.chunks[k].Body.text[j] : j \in DOMAIN ckRet.chunks[k].Body.text}

(* C25 as stated: ChunkDocumentWithOverlap fails with ErrInvalidOverlap
   unless 0 <= overlapTokens < maxTokens, whatever the other arguments. *)
C25_InvalidOverlapUnlessInRange ==
    (OverlapCall /\ ~OverlapInRange) => ckRet.err = ErrInvalidOverlap

(* C25 amended: for a non-empty content and a positive maxTokens,
   ChunkDocumentWithOverlap fails with ErrInvalidOverlap exactly when
   overlapTokens is outside 0..maxTokens-1; otherwise it returns windows of
   consecutive tokens, window i (from 0) starting at token index
   i * (maxTokens - overlapTokens), consecutive windows sharing exactly
   overlapTokens tokens, every token in some window, and the last window
   being the first that reaches the end of the token array. *)
C25_OverlapWindows ==
    (OverlapCall /\ ckArgs.tokens > 0 /\ ckArgs.maxTokens > 0) =>
       /\ ckRet.err = ErrInvalidOverlap <=> ~OverlapInRange
       /\ OverlapInRange =>
             LET stepSize == ckArgs.maxTokens - ckArgs.overlapTokens
                 cs == ckRet.chunks
                 k == Len(cs)
             IN /\ ckRet.err = Nil /\ k >= 1
                /\ \A i \in 1..k :
                      LET text == cs[i].Body.text
                      IN /\ text[1] = (i - 1) * stepSize + 1
                         /\ \A j \in DOMAIN text : text[j] = text[1] + j - 1
                         /\ i < k => text[Len(text)] < ckArgs.tokens
                /\ \A i \in 1..(k - 1) :
                      Cardinality(WindowOf(i) \cap WindowOf(i + 1)) = ckArgs.overlapTokens
                /\ UNION {WindowOf(i) : i \in 1..k} = 1..ckArgs.tokens
                /\ cs[k].Body.text[Len(cs[k].Body.text)] = ckArgs.tokens

(* Six tokens cut with maxTokens 3 and overlap 1: windows at 0, 2 and 4. *)
C25_Witness ==
    /\ OverlapCall
    /\ ckArgs.tokens = 6 /\ ckArgs.maxTokens = 3 /\ ckArgs.overlapTokens = 1
    /\ Len(ckRet.chunks) = 3
    /\ ckRet.chunks[2].Body.text = <<3, 4, 5>>
    /\ ckRet.chunks[3].Body.text = <<5, 6>>

\* ==========================================================================
\* The import and transform commands: flag registration in init(), flag
\* parsing, and what the Run function hands on (cmd/import.go,
\* cmd/transform.go).
\* ==========================================================================

defaultMaxTokens == 8191
defaultConcurrency == 5
\* 5 * time.Minute, in seconds
defaultTimeout == 300

cmdFrame == <<regVars, storeVars, engineVars, importVars, chunkVars,
              chunkerVars, pagesVars, dlLog>>

Commands == {"import", "transform"}
FlagInputs == {NotGiven} \cup {Given(v) : v \in 1..MaxFlag}

\* The variable the expression &maxTokens (&concurrency, &timeout) inside
\* init() resolves to.  The var block at the top of init() declares variables
\* of these names in the function's scope, so the flags are bound to those and
\* not to the package-level variables.
FlagTarget(flag) == "init"

\* init(): the local var block, then IntVarP / DurationVar, which store the
\* default in the variable the flag is bound to.
SetFlag(rec, where, flag, v) ==
    IF FlagTarget(flag) = where THEN [rec EXCEPT ![flag] = v] ELSE rec

CmdInit ==
    /\ cliPc = "init"
    /\ LET locals == [maxTokens |-> defaultMaxTokens,
                      concurrency |-> defaultConcurrency,
                      timeout |-> defaultTimeout]
           Bind(rec, where) ==
               SetFlag(SetFlag(SetFlag(rec, where, "maxTokens", locals.maxTokens),
                               where, "concurrency", locals.concurrency),
                       where, "timeout", locals.timeout)
       IN  /\ initLocals' = Bind(locals, "init")
           /\ pkgFlags' = Bind(pkgFlags, "package")
    /\ cliPc' = "parse"
    /\ UNCHANGED <<cliArgs, cliRun>>
    /\ UNCHANGED cmdFrame

\* cobra's flag parsing: every flag given on the command line is stored through
\* the pointer it was registered with.
StoreGiven(rec, where, flag, input) ==
    IF input.given THEN SetFlag(rec, where, flag, input.value) ELSE rec

ParseInto(rec, where) ==
    StoreGiven(StoreGiven(StoreGiven(rec, where, "maxTokens", cliArgs.tokens),
                          where, "concurrency", cliArgs.concurrency),
               where, "timeout", cliArgs.timeout)

CmdParse ==
    /\ cliPc = "parse"
    /\ initLocals' = ParseInto(initLocals, "init")
    /\ pkgFlags' = ParseInto(pkgFlags, "package")
    /\ cliPc' = "run"
    /\ UNCHANGED <<cliArgs, cliRun>>
    /\ UNCHANGED cmdFrame

\* runImport: context.WithTimeout, registerImporters (SetConcurrency on the
\* WP-JSON importer), ProcessingOptions, ProcessSource.  The identifiers here
\* are the package-level variables.
RunImport ==
    /\ cliPc = "run"
    /\ cliArgs.cmd = "import"
    /\ cliRun' = [done |-> TRUE,
                  MaxTokens |-> pkgFlags.maxTokens,
                  Concurrency |-> pkgFlags.concurrency,
                  ctxTimeout |-> pkgFlags.timeout,
                  wpConfigured |-> TRUE,
                  wpConcurrency |-> pkgFlags.concurrency]
    /\ cliPc' = "done"
    /\ UNCHANGED <<cliArgs, pkgFlags, initLocals>>
    /\ UNCHANGED cmdFrame

\* runTransform: context.WithTimeout, ProcessingOptions, ProcessDocument; no
\* importer is created.
RunTransform ==
    /\ cliPc = "run"
    /\ cliArgs.cmd = "transform"
    /\ cliRun' = [done |-> TRUE,
                  MaxTokens |-> pkgFlags.maxTokens,
                  Concurrency |-> pkgFlags.concurrency,
                  ctxTimeout |-> pkgFlags.timeout,
                  wpConfigured |-> FALSE,
                  wpConcurrency |-> 0]
    /\ cliPc' = "done"
    /\ UNCHANGED <<cliArgs, pkgFlags, initLocals>>
    /\ UNCHANGED cmdFrame

InitCmd ==
    /\ EngineAtRest
    /\ ChunkerIdle /\ PagesIdle /\ DownloadsIdle
    /\ cliArgs \in [cmd : Commands, tokens : FlagInputs,
                    concurrency : FlagInputs, timeout : FlagInputs]
    /\ cliPc = "init"
    /\ pkgFlags = NoFlags
    /\ initLocals = NoFlags
    /\ cliRun = NoRun

NextCmd == CmdInit \/ CmdParse \/ RunImport \/ RunTransform

SpecCmd == InitCmd /\ [][NextCmd]_vars

Supplied(input, default) == IF input.given THEN input.value ELSE default

(* C26: when the Run function of the import or the transform command has
   built its context and options, MaxTokens, Concurrency and the context's
   timeout are the values of --tokens, --concurrency and --timeout, or 8191,
   5 and 5 minutes for a flag that was not given, and the import command has
   set the WP-JSON importer's concurrency to that same concurrency value. *)
C26_FlagsReachOptions ==
    cliRun.done =>
        /\ cliRun.MaxTokens = Supplied(cliArgs.tokens, defaultMaxTokens)
        /\ cliRun.Concurrency = Supplied(cliArgs.concurrency, defaultConcurrency)
        /\ cliRun.ctxTimeout = Supplied(cliArgs.timeout, defaultTimeout)
        /\ cliRun.wpConfigured =>
               cliRun.wpConcurrency = Supplied(cliArgs.concurrency, defaultConcurrency)

\* The import command ran with all three flags given, the parsed values sit in
\* the variables of init(), and the options, the context and the importer got 0.
C26_Witness ==
    /\ cliRun.done
    /\ cliArgs.cmd = "import"
    /\ cliArgs.tokens = Given(MaxFlag)
    /\ cliArgs.concurrency = Given(MaxFlag)
    /\ cliArgs.timeout = Given(1)
    /\ initLocals = [maxTokens |-> MaxFlag, concurrency |-> MaxFlag, timeout |-> 1]
    /\ cliRun.MaxTokens = 0
    /\ cliRun.Concurrency = 0
    /\ cliRun.ctxTimeout = 0
    /\ cliRun.wpConfigured /\ cliRun.wpConcurrency = 0

\* ==========================================================================
\* ChunkDocument: the windows of the non-overlapping cut.
\* ==========================================================================

PlainCall ==
    /\ ckRet.done
    /\ ckArgs.fn = "ChunkDocument"
    /\ ckArgs.tokens >= 1
    /\ ckArgs.maxTokens > 0

\* ceil(t / n) for n > 0
CeilDiv(t, n) == (t + n - 1) \div n

Min(a, b) == IF a < b THEN a ELSE b

RECURSIVE ConcatBodies(_, _)
\* the token arrays of the first k chunk bodies, one after the other
ConcatBodies(cs, k) ==
    IF k = 0 THEN <<>> ELSE ConcatBodies(cs, k - 1) \o cs[k].Body.text

(* C27: for a content of T >= 1 tokens and maxTokens = N > 0, ChunkDocument
   succeeds; if T <= N it returns exactly one chunk whose body is the content;
   if T > N it returns exactly ceil(T/N) chunks, the i-th (from 0) holding the
   tokens [i*N, min((i+1)*N, T)), and the bodies in order make up the whole
   token array, each token once. *)
C27_DisjointWindowsCoverContent ==
    PlainCall =>
        LET T == ckArgs.tokens
            N == ckArgs.maxTokens
            toks == TokensOf(T)
            cs == ckRet.chunks
        IN  /\ ckRet.err = Nil
            /\ T <= N => Len(cs) = 1 /\ cs[1].Body = BodyOf(toks)
            /\ T > N =>
                  /\ Len(cs) = CeilDiv(T, N)
                  /\ \A k \in 1..Len(cs) :
                        cs[k].Body = BodyOf(SubSeq(toks, (k - 1) * N + 1, Min(k * N, T)))
            /\ ConcatBodies(cs, Len(cs)) = toks

\* A content of 5 tokens cut with maxTokens 2: three chunks, the last one short.
C27_Witness ==
    /\ PlainCall
    /\ ckArgs.tokens = 5 /\ ckArgs.maxTokens = 2
    /\ Len(ckRet.chunks) = 3
    /\ ckRet.chunks[3].Body = BodyOf(<<5>>)

\* ==========================================================================
\* Source and Download rows of one Import run.
\* ==========================================================================

DownloadsOf(sourceId) == {d \in downloads : d.source_id = sourceId}

\* the items whose result the Import loop has received, with that result
Reported == {recvLog[k] : k \in 1..Len(recvLog)}

(* C28: during and after an Import run every Source row the run wrote has
   exactly one Download row referencing it; an item reported as successful
   wrote its Source and its Download, and an item reported as failed left
   neither row and carries empty SourceID and DownloadID. *)
C28_SourceAndDownloadTogether ==
    /\ \A s \in sources : Cardinality(DownloadsOf(s.id)) = 1
    /\ \A e \in Reported :
          IF e.result.Error = Nil
          THEN /\ \E s \in sources : s.id = e.result.SourceID
               /\ \E d \in downloads : d.id = e.result.DownloadID /\ d.source_id = e.result.SourceID
          ELSE /\ e.result.SourceID = NoId /\ e.result.DownloadID = NoId
               /\ ~\E s \in sources : s.id = SourceIdOf(e.item)
               /\ ~\E d \in downloads : d.id = DownloadIdOf(e.item)

\* An item was reported as failed with the store's error, and its Source row is
\* in the store with no Download row.
C28_Witness ==
    \E e \in Reported :
        /\ e.result.Error = ErrStore
        /\ e.result.SourceID = NoId
        /\ \E s \in sources : s.id = SourceIdOf(e.item)
        /\ DownloadsOf(SourceIdOf(e.item)) = {}

\* ==========================================================================
\* What a failed ProcessDocument leaves in the store.
\* ==========================================================================

\* the errors ProcessDocument returns from the stages after Transform
LateErrors ==
    {ErrNoChunkerRegistered, ErrNoEmbedderRegistered, ErrContentEmpty,
     ErrInvalidMaxTokens, ErrChunkProcessingFailed}

FailedAfterTransform == enginePc = "done" /\ psRet \in LateErrors

MetaKeysStored == {m.key : m \in {x \in documentMeta : x.document_id = NewDocumentID}}

DocumentStored == \E d \in documents : d.id = NewDocumentID /\ d.download_id = downloadID

\* once ProcessDocument has returned with one of the late errors, the rows of
\* Transform are in the store
C29_KeptAfterLateFailure ==
    FailedAfterTransform =>
        DocumentStored /\ MetaKeysStored = MetadataKeys(sourceType)

\* metadata rows, all of them or the ones written before saveMetadata failed,
\* stand next to their Document row
C29_MetaHasDocument == MetaKeysStored # {} => DocumentStored

\* no step of ProcessDocument removes a Document or DocumentMeta row
C29_NothingRemoved == documents \subseteq documents' /\ documentMeta \subseteq documentMeta'

(* C29: a ProcessDocument that fails after the transformer has run
   (NoChunkerRegistered, NoEmbedderRegistered, a chunker error,
   ChunkProcessingFailed) leaves the Document row and all DocumentMeta rows of
   Transform in the store, no step ever removes such a row, and a Transform
   that fails in saveMetadata leaves its Document row with the metadata keys
   written before the failure. *)
C29_TransformNotRolledBack ==
    /\ [](C29_KeptAfterLateFailure /\ C29_MetaHasDocument)
    /\ [][C29_NothingRemoved]_vars

\* ProcessDocument returned NoEmbedderRegistered: Document row and both
\* metadata rows are in the store, no chunk was written.
C29_Witness ==
    /\ FailedAfterTransform
    /\ psRet = ErrNoEmbedderRegistered
    /\ DocumentStored
    /\ MetaKeysStored = {"file_path", "file_name"}
    /\ chunksTbl = {}

\* Transform failed in saveMetadata after one key: the Document row and that
\* key are in the store.
C29_PartialMetadata ==
    /\ enginePc = "done"
    /\ psRet = ErrStore
    /\ DocumentStored
    /\ MetaKeysStored = {"file_path"}

\* ==========================================================================
\* GitHub importer: a contents request answered with a non-OK status.
\* ==========================================================================

\* the files whose contents request was answered with a status other than 200
AnsweredNonOK ==
    {i \in DOMAIN fetchLog :
        \E k \in 1..Len(fetchLog[i]) : fetchLog[i][k].status \notin {0, httpOKStatus}}

(* C30: in the GitHub importer a file whose contents request is answered with
   a non-OK status is reported as a per-file error, has no Source and no
   Download row, and is never the last-success pair Import keeps and
   returns. *)
C30_NonOKFileIsAnError ==
    sourceType = "github" =>
        \A i \in AnsweredNonOK :
            /\ \E e \in Reported : e.item = i /\ e.result.Error # Nil
            /\ ~\E s \in sources : s.id = SourceIdOf(i)
            /\ ~\E d \in downloads : d.source_id = SourceIdOf(i)
            /\ lastResult.SourceID # SourceIdOf(i)
            /\ importResult.SourceID # SourceIdOf(i)

\* Import returned without error the pair of a file whose contents request
\* was answered 404: its rows were written with an empty content.
C30_Witness ==
    /\ sourceType = "github"
    /\ enginePc = "imported"
    /\ importErr = Nil
    /\ \E i \in AnsweredNonOK :
          /\ fetchLog[i] = <<Fetched([reqErr |-> FALSE, status |-> StatusNotFound], "")>>
          /\ \E e \in Reported : e.item = i /\ e.result.Error = Nil
          /\ \E s \in sources : s.id = SourceIdOf(i)
          /\ \E d \in downloads : d.source_id = SourceIdOf(i) /\ d.status_code = httpOKStatus
          /\ importResult.SourceID = SourceIdOf(i)
          /\ importResult.DownloadID = DownloadIdOf(i)

============================================================================
